---- MODULE Spec2Model ----
(***************************************************************************)
(* The versioned observable store of react-data-table, in its two          *)
(* variants:                                                               *)
(*   - createContextStore (src/src/providers/context.provider.tsx): a      *)
(*     store with an optional reducer and localStorage persistence, whose  *)
(*     subscribers are called synchronously;                               *)
(*   - createDataStore (src/unnamed/part_004): a store with a debounced,   *)
(*     bounded undo history, whose subscribers are called from an          *)
(*     animation-frame callback;                                           *)
(* and the structural utilities both use (src/src/utils/object.util.ts).   *)
(*                                                                         *)
(* JavaScript values are tagged pairs <<tag, payload>>.  An object is the  *)
(* sequence of its own properties <<key, value>> in insertion order, so    *)
(* two objects with the same content and a different key order are         *)
(* different values of the model, as they are different objects for the    *)
(* program; deepEqual must then do the work the code does.                 *)
(***************************************************************************)
EXTENDS Integers, Sequences, FiniteSets, TLC

----------------------------------------------------------------------------
(* JavaScript values *)

Undef == <<"undefined", 0>>
Null == <<"null", 0>>
Num(n) == <<"number", n>>
Bool(b) == <<"boolean", b>>
Str(s) == <<"string", s>>
Obj(props) == <<"object", props>>
Arr(items) == <<"array", items>>
Fn(name) == <<"function", name>>
\* the number NaN, the one value that is not === to itself
NaN == <<"nan", 0>>

\* typeof v
TypeOf(v) ==
    IF v[1] \in {"object", "array", "null"} THEN "object"
    ELSE IF v[1] = "nan" THEN "number"
    ELSE v[1]

\* typeof v === "object" && v !== null
IsObjectLike(v) == v[1] \in {"object", "array"}

\* Truthiness of a value in a condition such as `update && ...`
Truthy(v) ==
    CASE v[1] \in {"undefined", "null", "nan"} -> FALSE
      [] v[1] = "number" -> v[2] # 0
      [] v[1] = "boolean" -> v[2]
      [] v[1] = "string" -> v[2] # ""
      [] OTHER -> TRUE

\* The property name of an array index
IndexKey(i) == <<"0", "1", "2", "3", "4", "5", "6", "7">>[i + 1]

\* The own enumerable properties of a value, as <<key, value>> pairs in
\* enumeration order (what Object.keys, for..in and object spread walk)
OwnProps(v) ==
    CASE v[1] = "object" -> v[2]
      [] v[1] = "array" -> [i \in 1..Len(v[2]) |-> <<IndexKey(i - 1), v[2][i]>>]
      [] OTHER -> <<>>

OwnKeys(v) == [i \in 1..Len(OwnProps(v)) |-> OwnProps(v)[i][1]]

KeySet(v) == {OwnProps(v)[i][1] : i \in 1..Len(OwnProps(v))}

\* key in v, for an object or an array
HasKey(v, key) == key \in KeySet(v)

\* v[key]: the property's value, undefined when there is none
Get(v, key) ==
    IF HasKey(v, key)
    THEN LET i == CHOOSE j \in 1..Len(OwnProps(v)) : OwnProps(v)[j][1] = key
         IN OwnProps(v)[i][2]
    ELSE Undef

\* obj[key] = val on an object: an existing key keeps its place, a new key
\* is appended
SetProp(obj, key, val) ==
    IF HasKey(obj, key)
    THEN Obj([i \in 1..Len(obj[2]) |->
                 IF obj[2][i][1] = key THEN <<key, val>> ELSE obj[2][i]])
    ELSE Obj(Append(obj[2], <<key, val>>))

----------------------------------------------------------------------------
(* src/src/utils/object.util.ts *)

RECURSIVE deepClonePolyfill(_)
deepClonePolyfill(source) ==
    CASE source[1] = "array" ->
            Arr([i \in 1..Len(source[2]) |-> deepClonePolyfill(source[2][i])])
      [] source[1] = "object" ->
            Obj([i \in 1..Len(source[2]) |->
                    <<source[2][i][1], deepClonePolyfill(source[2][i][2])>>])
      [] OTHER -> source

\* structuredClone refuses a value that holds a function (DataCloneError)
RECURSIVE HoldsFunction(_)
HoldsFunction(v) ==
    CASE v[1] = "function" -> TRUE
      [] v[1] = "array" -> \E i \in 1..Len(v[2]) : HoldsFunction(v[2][i])
      [] v[1] = "object" -> \E i \in 1..Len(v[2]) : HoldsFunction(v[2][i][2])
      [] OTHER -> FALSE

\* structuredClone of plain data: a copy with the same keys in the same order
RECURSIVE structuredClone(_)
structuredClone(v) ==
    CASE v[1] = "array" -> Arr([i \in 1..Len(v[2]) |-> structuredClone(v[2][i])])
      [] v[1] = "object" ->
            Obj([i \in 1..Len(v[2]) |-> <<v[2][i][1], structuredClone(v[2][i][2])>>])
      [] OTHER -> v

deepClone(source) ==
    IF HoldsFunction(source) THEN deepClonePolyfill(source) ELSE structuredClone(source)

\* a === b decided on the values alone: two primitives with the same type and
\* value, or the same function.  Two objects are === only when they are one
\* object, and then the structural comparison below answers TRUE as well.
StrictEqPrimitive(a, b) == ~IsObjectLike(a) /\ a[1] = b[1] /\ a = b /\ a # NaN

\* deepEqual that compares the serialized forms, so that the order of the keys
\* counts
deepEqualKeyOrder(source, destination) == source = destination

RECURSIVE deepEqual(_, _)
deepEqual(source, destination) ==
    IF StrictEqPrimitive(source, destination) THEN TRUE
    ELSE IF ~IsObjectLike(source) \/ ~IsObjectLike(destination) THEN FALSE
    ELSE IF source[1] = "array" /\ destination[1] = "array"
    THEN /\ Len(source[2]) = Len(destination[2])
         /\ \A i \in 1..Len(source[2]) : deepEqual(source[2][i], destination[2][i])
    ELSE /\ Len(OwnKeys(source)) = Len(OwnKeys(destination))
         /\ \A i \in 1..Len(OwnKeys(source)) :
                /\ HasKey(destination, OwnKeys(source)[i])
                /\ deepEqual(Get(source, OwnKeys(source)[i]),
                             Get(destination, OwnKeys(source)[i]))

isPlainObject(value) == value[1] = "object"

RECURSIVE deepMerge(_, _)
RECURSIVE MergeProps(_, _, _)
RECURSIVE MergePropsNoSkip(_, _, _)
\* the loop of deepMerge without the `continue` of lines 98-100: an undefined
\* value of source is assigned like any other
MergePropsNoSkip(result, props, i) ==
    IF i > Len(props) THEN result
    ELSE LET key == props[i][1]
             sourceValue == props[i][2]
             targetValue == Get(result, key)
         IN IF isPlainObject(targetValue) /\ isPlainObject(sourceValue)
            THEN MergePropsNoSkip(SetProp(result, key, deepMerge(targetValue, sourceValue)),
                                  props, i + 1)
            ELSE MergePropsNoSkip(SetProp(result, key, sourceValue), props, i + 1)

\* the for..in loop of deepMerge over the properties of source, from the
\* i-th on, applied to result
MergeProps(result, props, i) ==
    IF i > Len(props) THEN result
    ELSE LET key == props[i][1]
             sourceValue == props[i][2]
             targetValue == Get(result, key)
         IN IF sourceValue = Undef
            THEN MergeProps(result, props, i + 1)
            ELSE IF isPlainObject(targetValue) /\ isPlainObject(sourceValue)
            THEN MergeProps(SetProp(result, key, deepMerge(targetValue, sourceValue)),
                            props, i + 1)
            ELSE MergeProps(SetProp(result, key, sourceValue), props, i + 1)

deepMerge(target, source) ==
    IF source[1] \in {"undefined", "null"} THEN target
    ELSE MergeProps(deepClone(target), OwnProps(source), 1)

----------------------------------------------------------------------------
(* Bounds of the model *)

\* the largest number of debounce-timer fires in one run
MaxFires == 2
\* the largest number of animation-frame callbacks waiting at one time
MaxFrames == 1
\* how far below the newest history entry the cursor is followed
MaxDepth == 3
\* how deep the values handed to the utilities nest records and sequences
MaxNest == 2
\* how many times registerShortcuts is called
MaxHandlers == 2
\* how many objects the store and the code around it can reach at one time
MaxRefs == 5

----------------------------------------------------------------------------
(* The callers' inputs *)

\* the two initial values: a record and a scalar
RecordInit == Obj(<< <<"count", Num(0)>>, <<"cv", Obj(<< <<"id", Bool(FALSE)>> >>)>> >>)
ScalarInit == Num(0)

InitialStates == {RecordInit, ScalarInit}

\* the callbacks the rendering layer registers
Callbacks == {"cb1", "cb2"}

\* Updates of a record store: partial objects and mutator functions
\* (DeepPartial<T> | (state: T) => void | T)
RecordUpdates ==
    { Obj(<< <<"count", Num(1)>> >>),
      Obj(<< <<"count", Num(0)>> >>),
      Obj(<< <<"cv", Obj(<< <<"id", Bool(FALSE)>> >>)>> >>),
      Obj(<< <<"count", Undef>> >>),
      Fn("flip"), Fn("keep"), Fn("swap"), Fn("replace") }

\* Updates of a scalar store: replacement values and functions of the value
ScalarUpdates == { Num(0), Num(1), Fn("next"), Fn("same") }

UpdatesFor(current) == IF current[1] = "object" THEN RecordUpdates ELSE ScalarUpdates

\* the object with the properties of v in reverse order
Reversed(v) == Obj([i \in 1..Len(v[2]) |-> v[2][Len(v[2]) + 1 - i]])

\* What a caller's update function does with its argument: the argument as
\* the function leaves it (arg) and what the function returns (ret).
\*   flip  (draft) => { draft.count = 1 - draft.count }
\*   keep  (draft) => {}
\*   swap  (draft) => an object with draft's properties in reverse order
\*   replace  (draft) => ({ ...draft, count: 1 - draft.count })
\*   next  (n) => 1 - n
\*   same  (n) => n
CallUpdate(name, state) ==
    CASE name = "flip" ->
            [arg |-> SetProp(state, "count", Num(1 - Get(state, "count")[2])), ret |-> Undef]
      [] name = "keep" -> [arg |-> state, ret |-> Undef]
      [] name = "swap" -> [arg |-> state, ret |-> Reversed(state)]
      [] name = "replace" ->
            [arg |-> state, ret |-> SetProp(state, "count", Num(1 - Get(state, "count")[2]))]
      [] name = "next" -> [arg |-> state, ret |-> Num(1 - state[2])]
      [] name = "same" -> [arg |-> state, ret |-> state]

----------------------------------------------------------------------------
(* State *)

VARIABLES
    variant,        \* "history" (createDataStore) or "context" (createContextStore)
    listeners,      \* the handlers registerShortcuts made, in the order they were added
                    \* to window's keydown listeners: TRUE while a handler is attached
    initialState,   \* the initialState argument of the factory
    store,          \* the live value: store (part_004) / store.current (context)
    subscribers,    \* the Set of callbacks, in insertion order
    options,        \* context: the ContextStoreOption (reducer, persistKey, persistFields)
    storage,        \* context: the localStorage slot named by persistKey
    history,        \* history: T[]
    currentIndex,   \* currentIndex
    timerPending,   \* a setTimeout of pushHistoryDebouncedTimeout has not fired yet
    timerLeft,      \* the time left before the pending timer is due
    latestVersion,  \* the latestVersion the pending timer's callback closes over
    frames,         \* requestAnimationFrame callbacks of notifySubscribers waiting
    fires,          \* number of timer fires so far (bounds the run)
    burst,          \* whether the last accepted change came alone (one) or while a timer was
                    \* pending (many); none once undo, redo, rollbackTo or resetStore was called
    rt,             \* the change / snapshot / undo / redo sequence in progress
    lastOp,         \* the last operation (or callback run) and what it did
    consumer        \* a component that calls the store's hook: its selector and its
                    \* lastSelectedRef

vars == <<variant, listeners, initialState, store, subscribers, options, storage, history,
          currentIndex, timerPending, timerLeft, latestVersion, frames, fires, burst, rt,
          lastOp, consumer>>

ctxVars == <<options, storage>>

histVars == <<history, currentIndex, timerPending, timerLeft, latestVersion, frames, fires,
              burst, rt>>

NoRoundTrip == [phase |-> "none", v0 |-> Undef, v1 |-> Undef]

\* createDataStore takes no option and touches no storage
NoOptions == [reducer |-> FALSE, persistKey |-> FALSE, persistFields |-> <<>>]

\* The content of a localStorage slot: nothing (getItem returns null), the
\* text JSON.stringify gave for a value, or a text JSON.parse rejects
Absent == <<"absent", 0>>
Garbage == <<"garbage", 0>>
JsonText(value) == <<"json", value>>

\* op: the operation; acted: it took its effect branch; calls: the callbacks
\* it invoked, in order; wrote: its call of localStorage, setItem in set and
\* getItem at construction ("none" when it made none, "ok" when the call
\* returned, "failed" when it threw); ret: what it handed back to its caller,
\* for the hooks and their snapshot functions
Nothing == <<"nothing", 0>>
Thrown(message) == <<"error", message>>

Op(op, acted, calls, wrote) ==
    [op |-> op, acted |-> acted, calls |-> calls, wrote |-> wrote, ret |-> Nothing]

\* no component has called the hook yet
NoConsumer == [mounted |-> FALSE, selector |-> "none", last |-> Undef]

MAX_HISTORY == 100

\* the delay of setTimeout in setStore
DEBOUNCE == 200

\* createDataStore(initialState): store = deepClone(initialState),
\* history = [deepClone(store)], currentIndex = 0, no timer, no subscriber
InitHistory(init) ==
    /\ variant = "history"
    /\ listeners = <<>>
    /\ initialState = init
    /\ store = deepClone(init)
    /\ subscribers = <<>>
    /\ options = NoOptions
    /\ storage = Absent
    /\ history = <<deepClone(deepClone(init))>>
    /\ currentIndex = 0
    /\ timerPending = FALSE
    /\ timerLeft = 0
    /\ latestVersion = Undef
    /\ frames = 0
    /\ fires = 0
    /\ burst = "none"
    /\ rt = NoRoundTrip
    /\ consumer = NoConsumer
    /\ lastOp = Op("create", TRUE, <<>>, "none")

----------------------------------------------------------------------------
(* createDataStore: src/unnamed/part_004 *)

\* notifySubscribers that requests no animation frame
notifyNobody == frames' = frames

\* notifySubscribers(): one more animation-frame callback waits
notifySubscribers == /\ frames < MaxFrames
                     /\ frames' = frames + 1

\* the resolution of setStore without the test !Array.isArray(update) of line
\* 43: an array update is merged into a record like an object
NextStateOfSetStoreMergesArrays(current, update) ==
    IF update[1] = "function"
    THEN IF TypeOf(current) # "object"
         THEN CallUpdate(update[2], current).ret
         ELSE LET call == CallUpdate(update[2], deepClone(current))
              IN IF call.ret # Undef THEN call.ret ELSE call.arg
    ELSE IF /\ Truthy(update) /\ TypeOf(update) = "object"
            /\ Truthy(current) /\ TypeOf(current) = "object" /\ current[1] # "array"
    THEN deepMerge(current, update)
    ELSE update

\* the candidate next value of setStore(update), lines 26-53
NextStateOfSetStore(current, update) ==
    IF update[1] = "function"
    THEN IF TypeOf(current) # "object"
         THEN CallUpdate(update[2], current).ret
         ELSE LET call == CallUpdate(update[2], deepClone(current))
              IN IF call.ret # Undef THEN call.ret ELSE call.arg
    ELSE IF /\ Truthy(update) /\ TypeOf(update) = "object" /\ update[1] # "array"
            /\ Truthy(current) /\ TypeOf(current) = "object" /\ current[1] # "array"
    THEN deepMerge(current, update)
    ELSE update

\* setStore that keeps the snapshot of the first change of a burst
setStoreKeepFirst(update) ==
    /\ variant = "history"
    /\ LET nextState == NextStateOfSetStore(store, update)
       IN IF ~deepEqual(store, nextState)
          THEN /\ store' = nextState
               /\ latestVersion' = IF timerPending THEN latestVersion
                                   ELSE deepClone(nextState)
               /\ timerPending' = TRUE
               /\ timerLeft' = DEBOUNCE
               /\ notifySubscribers
               /\ burst' = IF timerPending THEN "many" ELSE "one"
               /\ rt' = IF timerPending THEN NoRoundTrip
                        ELSE [phase |-> "changed", v0 |-> store, v1 |-> nextState]
               /\ lastOp' = Op("setStore", TRUE, <<>>, "none")
               /\ UNCHANGED <<history, currentIndex, fires>>
          ELSE /\ lastOp' = Op("setStore", FALSE, <<>>, "none")
               /\ rt' = NoRoundTrip
               /\ UNCHANGED <<store, history, currentIndex, timerPending, timerLeft,
                              latestVersion, frames, fires, burst>>
    /\ UNCHANGED <<consumer, variant, listeners, initialState, subscribers, ctxVars>>

setStore(update) ==
    /\ variant = "history"
    /\ LET nextState == NextStateOfSetStore(store, update)
       IN IF ~deepEqual(store, nextState)
          THEN /\ store' = nextState
               /\ latestVersion' = deepClone(nextState)
               /\ timerPending' = TRUE
               /\ timerLeft' = DEBOUNCE
               /\ notifySubscribers
               /\ burst' = IF timerPending THEN "many" ELSE "one"
               /\ rt' = IF timerPending THEN NoRoundTrip
                        ELSE [phase |-> "changed", v0 |-> store, v1 |-> nextState]
               /\ lastOp' = Op("setStore", TRUE, <<>>, "none")
               /\ UNCHANGED <<history, currentIndex, fires>>
          ELSE /\ lastOp' = Op("setStore", FALSE, <<>>, "none")
               /\ rt' = NoRoundTrip
               /\ UNCHANGED <<store, history, currentIndex, timerPending, timerLeft,
                              latestVersion, frames, fires, burst>>
    /\ UNCHANGED <<consumer, variant, listeners, initialState, subscribers, ctxVars>>

\* the callback of setTimeout without the eviction of lines 70-73
TimerFireNoEvict ==
    /\ variant = "history"
    /\ timerPending
    /\ timerLeft = 0
    /\ fires < MaxFires
    /\ history' = Append(SubSeq(history, 1, currentIndex + 1), latestVersion)
    /\ currentIndex' = Len(history') - 1
    /\ timerPending' = FALSE
    /\ timerLeft' = 0
    /\ latestVersion' = Undef
    /\ fires' = fires + 1
    /\ rt' = IF rt.phase = "changed" THEN [rt EXCEPT !.phase = "snapshot"] ELSE NoRoundTrip
    /\ lastOp' = Op("timer", TRUE, <<>>, "none")
    /\ UNCHANGED <<consumer, variant, listeners, initialState, store, subscribers, ctxVars, frames, burst>>

\* the timer's callback with `>=` for the `>` of line 71: the oldest entry
\* goes when the history reaches MAX_HISTORY entries
TimerFireShiftsEarly ==
    /\ variant = "history"
    /\ timerPending
    /\ timerLeft = 0
    /\ fires < MaxFires
    /\ LET pushed == Append(SubSeq(history, 1, currentIndex + 1), latestVersion)
       IN IF Len(pushed) >= MAX_HISTORY
          THEN /\ history' = Tail(pushed)
               /\ currentIndex' = (Len(pushed) - 1) - 1
          ELSE /\ history' = pushed
               /\ currentIndex' = Len(pushed) - 1
    /\ timerPending' = FALSE
    /\ timerLeft' = 0
    /\ latestVersion' = Undef
    /\ fires' = fires + 1
    /\ rt' = IF rt.phase = "changed" THEN [rt EXCEPT !.phase = "snapshot"] ELSE NoRoundTrip
    /\ lastOp' = Op("timer", TRUE, <<>>, "none")
    /\ UNCHANGED <<consumer, variant, listeners, initialState, store, subscribers, ctxVars, frames, burst>>

\* the callback of setTimeout(..., 200), lines 65-75
TimerFire ==
    /\ variant = "history"
    /\ timerPending
    /\ timerLeft = 0
    /\ fires < MaxFires
    /\ LET pushed == Append(SubSeq(history, 1, currentIndex + 1), latestVersion)
       IN IF Len(pushed) > MAX_HISTORY
          THEN /\ history' = Tail(pushed)
               /\ currentIndex' = (Len(pushed) - 1) - 1
          ELSE /\ history' = pushed
               /\ currentIndex' = Len(pushed) - 1
    /\ timerPending' = FALSE
    /\ timerLeft' = 0
    /\ latestVersion' = Undef
    /\ fires' = fires + 1
    /\ rt' = IF rt.phase = "changed" THEN [rt EXCEPT !.phase = "snapshot"] ELSE NoRoundTrip
    /\ lastOp' = Op("timer", TRUE, <<>>, "none")
    /\ UNCHANGED <<consumer, variant, listeners, initialState, store, subscribers, ctxVars, frames, burst>>

\* a clock that stands still: the delay of the pending timer never elapses
TickStalls ==
    /\ variant = "history"
    /\ timerPending
    /\ timerLeft > 0
    /\ UNCHANGED <<consumer, variant, listeners, initialState, store, subscribers, ctxVars, history,
                   currentIndex, timerPending, timerLeft, latestVersion, frames, fires, burst,
                   rt, lastOp>>

\* Time passes until the pending timer is due: its callback is then the next
\* thing the timer does, unless clearTimeout comes first
Tick ==
    /\ variant = "history"
    /\ timerPending
    /\ timerLeft > 0
    /\ timerLeft' = timerLeft - DEBOUNCE
    /\ UNCHANGED <<consumer, variant, listeners, initialState, store, subscribers, ctxVars, history,
                   currentIndex, timerPending, latestVersion, frames, fires, burst, rt,
                   lastOp>>

\* the cursor is followed down to MaxDepth entries below the newest one
InDepth(index) == Len(history) - index <= MaxDepth

\* rollbackTo that clones the entry of the old cursor
rollbackToStaleIndex(versionIndex) ==
    /\ variant = "history"
    /\ IF versionIndex >= 0 /\ versionIndex < Len(history)
       THEN /\ InDepth(versionIndex)
            /\ currentIndex' = versionIndex
            /\ store' = deepClone(history[currentIndex + 1])
            /\ notifySubscribers
            /\ lastOp' = Op("rollbackTo", TRUE, <<>>, "none")
       ELSE /\ lastOp' = Op("rollbackTo", FALSE, <<>>, "none")
            /\ UNCHANGED <<store, currentIndex, frames>>
    /\ rt' = NoRoundTrip
    /\ burst' = "none"
    /\ UNCHANGED <<consumer, variant, listeners, initialState, subscribers, ctxVars, history, timerPending,
                   timerLeft, latestVersion, fires>>

rollbackTo(versionIndex) ==
    /\ variant = "history"
    /\ IF versionIndex >= 0 /\ versionIndex < Len(history)
       THEN /\ InDepth(versionIndex)
            /\ currentIndex' = versionIndex
            /\ store' = deepClone(history[versionIndex + 1])
            /\ notifySubscribers
            /\ lastOp' = Op("rollbackTo", TRUE, <<>>, "none")
       ELSE /\ lastOp' = Op("rollbackTo", FALSE, <<>>, "none")
            /\ UNCHANGED <<store, currentIndex, frames>>
    /\ rt' = NoRoundTrip
    /\ burst' = "none"
    /\ UNCHANGED <<consumer, variant, listeners, initialState, subscribers, ctxVars, history, timerPending,
                   timerLeft, latestVersion, fires>>

\* undo without the test of line 92: history[-1] is undefined
undoUnguarded ==
    /\ variant = "history"
    /\ InDepth(currentIndex - 1)
    /\ currentIndex' = currentIndex - 1
    /\ store' = IF currentIndex > 0 THEN deepClone(history[(currentIndex - 1) + 1])
                ELSE deepClone(Undef)
    /\ notifySubscribers
    /\ lastOp' = Op("undo", TRUE, <<>>, "none")
    /\ rt' = IF rt.phase = "snapshot" THEN [rt EXCEPT !.phase = "undone"] ELSE NoRoundTrip
    /\ burst' = "none"
    /\ UNCHANGED <<consumer, variant, listeners, initialState, subscribers, ctxVars, history, timerPending,
                   timerLeft, latestVersion, fires>>

undo ==
    /\ variant = "history"
    /\ IF currentIndex > 0
       THEN /\ InDepth(currentIndex - 1)
            /\ currentIndex' = currentIndex - 1
            /\ store' = deepClone(history[(currentIndex - 1) + 1])
            /\ notifySubscribers
            /\ lastOp' = Op("undo", TRUE, <<>>, "none")
       ELSE /\ lastOp' = Op("undo", FALSE, <<>>, "none")
            /\ UNCHANGED <<store, currentIndex, frames>>
    /\ rt' = IF rt.phase = "snapshot" THEN [rt EXCEPT !.phase = "undone"] ELSE NoRoundTrip
    /\ burst' = "none"
    /\ UNCHANGED <<consumer, variant, listeners, initialState, subscribers, ctxVars, history, timerPending,
                   timerLeft, latestVersion, fires>>

\* redo that goes round from the last index to the first entry
redoWrapsAround ==
    /\ variant = "history"
    /\ IF currentIndex < Len(history) - 1
       THEN /\ currentIndex' = currentIndex + 1
            /\ store' = deepClone(history[(currentIndex + 1) + 1])
            /\ notifySubscribers
            /\ lastOp' = Op("redo", TRUE, <<>>, "none")
       ELSE /\ currentIndex' = 0
            /\ store' = deepClone(history[1])
            /\ lastOp' = Op("redo", FALSE, <<>>, "none")
            /\ UNCHANGED frames
    /\ rt' = IF rt.phase = "undone" THEN [rt EXCEPT !.phase = "redone"] ELSE NoRoundTrip
    /\ burst' = "none"
    /\ UNCHANGED <<consumer, variant, listeners, initialState, subscribers, ctxVars, history, timerPending,
                   timerLeft, latestVersion, fires>>

redo ==
    /\ variant = "history"
    /\ IF currentIndex < Len(history) - 1
       THEN /\ currentIndex' = currentIndex + 1
            /\ store' = deepClone(history[(currentIndex + 1) + 1])
            /\ notifySubscribers
            /\ lastOp' = Op("redo", TRUE, <<>>, "none")
       ELSE /\ lastOp' = Op("redo", FALSE, <<>>, "none")
            /\ UNCHANGED <<store, currentIndex, frames>>
    /\ rt' = IF rt.phase = "undone" THEN [rt EXCEPT !.phase = "redone"] ELSE NoRoundTrip
    /\ burst' = "none"
    /\ UNCHANGED <<consumer, variant, listeners, initialState, subscribers, ctxVars, history, timerPending,
                   timerLeft, latestVersion, fires>>

\* resetStore that leaves the history and the cursor as they are
resetStoreKeepsHistory ==
    /\ variant = "history"
    /\ store' = deepClone(initialState)
    /\ notifySubscribers
    /\ rt' = NoRoundTrip
    /\ burst' = "none"
    /\ lastOp' = Op("resetStore", TRUE, <<>>, "none")
    /\ UNCHANGED <<consumer, variant, listeners, initialState, subscribers, ctxVars, history, currentIndex,
                   timerPending, timerLeft, latestVersion, fires>>

\* resetStore(), lines 109-114: the pending timer is left as it is
resetStore ==
    /\ variant = "history"
    /\ store' = deepClone(initialState)
    /\ history' = <<deepClone(initialState)>>
    /\ currentIndex' = 0
    /\ notifySubscribers
    /\ rt' = NoRoundTrip
    /\ burst' = "none"
    /\ lastOp' = Op("resetStore", TRUE, <<>>, "none")
    /\ UNCHANGED <<consumer, variant, listeners, initialState, subscribers, ctxVars, timerPending, timerLeft,
                   latestVersion, fires>>

\* The browser runs the waiting animation-frame callbacks, one after the
\* other in one frame; each calls every callback of the Set in insertion order.
RECURSIVE Repeat(_, _)
Repeat(seq, n) == IF n = 0 THEN <<>> ELSE seq \o Repeat(seq, n - 1)

AnimationFrame ==
    /\ variant = "history"
    /\ frames > 0
    /\ frames' = 0
    /\ lastOp' = Op("frame", TRUE, Repeat(subscribers, frames), "none")
    /\ UNCHANGED <<consumer, variant, listeners, initialState, store, subscribers, ctxVars, history,
                   currentIndex, timerPending, timerLeft, latestVersion, fires, burst, rt>>

\* subscribers.add(callback) on a list: the callback is added once more
SetAddAgain(set, callback) == Append(set, callback)

\* subscribers.add(callback) on a collection that iterates the newest first
SetAddFirst(set, callback) ==
    IF \E i \in 1..Len(set) : set[i] = callback THEN set ELSE <<callback>> \o set

\* subscribers.add(callback)
SetAdd(set, callback) ==
    IF \E i \in 1..Len(set) : set[i] = callback THEN set ELSE Append(set, callback)

\* subscribers.delete(callback) that removes nothing
SetDeleteKeeps(set, callback) == set

\* subscribers.delete(callback)
SetDelete(set, callback) == SelectSeq(set, LAMBDA c : c # callback)

subscribe(callback) ==
    /\ subscribers' = SetAdd(subscribers, callback)
    /\ lastOp' = Op("subscribe", TRUE, <<>>, "none")
    /\ UNCHANGED <<consumer, variant, listeners, initialState, store, ctxVars, histVars>>

\* the function subscribe returned, called (any number of times)
unsubscribe(callback) ==
    /\ subscribers' = SetDelete(subscribers, callback)
    /\ lastOp' = Op("unsubscribe", TRUE, <<>>, "none")
    /\ UNCHANGED <<consumer, variant, listeners, initialState, store, ctxVars, histVars>>

\* subscribe(callback) for a callback that is registered already
subscribeAgain(callback) ==
    /\ \E i \in 1..Len(subscribers) : subscribers[i] = callback
    /\ subscribers' = SetAdd(subscribers, callback)
    /\ lastOp' = Op("subscribeAgain", TRUE, <<>>, "none")
    /\ UNCHANGED <<consumer, variant, listeners, initialState, store, ctxVars, histVars>>

\* the function subscribe returned, called once more: after its first call,
\* or after the call of the one an earlier subscribe(callback) returned
unsubscribeAgain(callback) ==
    /\ \A i \in 1..Len(subscribers) : subscribers[i] # callback
    /\ subscribers' = SetDelete(subscribers, callback)
    /\ lastOp' = Op("unsubscribeAgain", TRUE, <<>>, "none")
    /\ UNCHANGED <<consumer, variant, listeners, initialState, store, ctxVars, histVars>>

----------------------------------------------------------------------------
(* createContextStore: src/src/providers/context.provider.tsx *)

\* JSON.stringify of a value inside an object or an array: a property whose
\* value is undefined or a function is left out, such an array element is
\* null, and so is NaN
RECURSIVE JsonValue(_)
JsonValue(v) ==
    CASE v[1] = "array" ->
            Arr([i \in 1..Len(v[2]) |->
                    IF v[2][i][1] \in {"undefined", "function"} THEN Null
                    ELSE JsonValue(v[2][i])])
      [] v = NaN -> Null
      [] v[1] = "object" ->
            LET kept == SelectSeq(v[2], LAMBDA p : p[2][1] \notin {"undefined", "function"})
            IN Obj([i \in 1..Len(kept) |-> <<kept[i][1], JsonValue(kept[i][2])>>])
      [] OTHER -> v

\* localStorage.setItem(key, JSON.stringify(value)): JSON.stringify returns
\* undefined for undefined and for a function, and setItem then stores the
\* text "undefined", which JSON.parse rejects
Stringified(value) ==
    IF value[1] \in {"undefined", "function"} THEN Garbage ELSE JsonText(JsonValue(value))

\* { ...a, ...b }: the own properties of a, then those of b; a key of both
\* keeps a's place and takes b's value
RECURSIVE AssignProps(_, _, _)
AssignProps(result, props, i) ==
    IF i > Len(props) THEN result
    ELSE AssignProps(SetProp(result, props[i][1], props[i][2]), props, i + 1)

Spread(a, b) == AssignProps(AssignProps(Obj(<<>>), OwnProps(a), 1), OwnProps(b), 1)

\* persistFields.reduce((acc, key) => { if (key in from) acc[key] = from[key] }, {})
RECURSIVE PickFields(_, _, _, _)
PickFields(acc, fields, from, i) ==
    IF i > Len(fields) THEN acc
    ELSE PickFields(IF HasKey(from, fields[i])
                    THEN SetProp(acc, fields[i], Get(from, fields[i]))
                    ELSE acc,
                    fields, from, i + 1)

\* loadState without the catch of lines 35-37: nothing comes back when
\* getItem or JSON.parse throws
loadStateNoCatch(init, opts, slot, denied) ==
    IF ~opts.persistKey THEN init
    ELSE IF denied THEN Undef
    ELSE IF slot = Absent THEN init
    ELSE IF slot = Garbage THEN Undef
    ELSE LET parsed == slot[2]
         IN IF Len(opts.persistFields) > 0
            THEN IF ~IsObjectLike(parsed)
                 THEN Undef
                 ELSE Spread(init, PickFields(Obj(<<>>), opts.persistFields, parsed, 1))
            ELSE Spread(init, parsed)

\* loadState with deepMerge in place of the spreads of lines 32 and 34: the
\* stored content is merged into the nested records of initialState
loadStateDeepOverlay(init, opts, slot, denied) ==
    IF ~opts.persistKey THEN init
    ELSE IF denied THEN init
    ELSE IF slot = Absent THEN init
    ELSE IF slot = Garbage THEN init
    ELSE LET parsed == slot[2]
         IN IF Len(opts.persistFields) > 0
            THEN IF ~IsObjectLike(parsed)
                 THEN init
                 ELSE deepMerge(Spread(init, Obj(<<>>)),
                                PickFields(Obj(<<>>), opts.persistFields, parsed, 1))
            ELSE IF parsed[1] = "object"
            THEN deepMerge(Spread(init, Obj(<<>>)), parsed)
            ELSE Spread(init, parsed)

\* loadState(), lines 15-38; denied: localStorage.getItem throws
loadState(init, opts, slot, denied) ==
    IF ~opts.persistKey THEN init
    ELSE IF denied THEN init
    ELSE IF slot = Absent THEN init
    ELSE IF slot = Garbage THEN init
    ELSE LET parsed == slot[2]
         IN IF Len(opts.persistFields) > 0
            THEN IF ~IsObjectLike(parsed)
                 THEN init      \* `key in parsed` throws a TypeError
                 ELSE Spread(init, PickFields(Obj(<<>>), opts.persistFields, parsed, 1))
            ELSE Spread(init, parsed)

\* saveState without the reduce of lines 53-59: the whole state is written
PersistedTextWhole(state, opts) == Stringified(state)

\* what saveState(state) hands to localStorage.setItem, lines 43-61
PersistedText(state, opts) ==
    IF ~IsObjectLike(state) THEN Stringified(state)
    ELSE IF Len(opts.persistFields) = 0 THEN Stringified(state)
    ELSE Stringified(PickFields(Obj(<<>>), opts.persistFields, state, 1))

\* The reducer of the store, when one is configured:
\*   (state, action) => { if (action.type === "flip") state.count = 1 - state.count }
\* the draft as the reducer leaves it
CallReducer(state, action) ==
    IF Get(action, "type") = Str("flip") /\ HasKey(state, "count")
    THEN SetProp(state, "count", Num(1 - Get(state, "count")[2]))
    ELSE state

\* the resolution of set where line 98-99 read `nextState = reducer(
\* deepClone(store.current), update)`, for a reducer that returns its action
NextStateOfSetReducerReturn(current, update, opts) ==
    IF update[1] = "function"
    THEN IF TypeOf(current) # "object" \/ current = Null
         THEN CallUpdate(update[2], current).ret
         ELSE CallUpdate(update[2], deepClone(current)).arg
    ELSE IF /\ Truthy(update) /\ TypeOf(update) = "object" /\ HasKey(update, "type")
            /\ opts.reducer
    THEN update
    ELSE IF /\ Truthy(update) /\ TypeOf(update) = "object" /\ update[1] # "array"
            /\ Truthy(current) /\ TypeOf(current) = "object" /\ current[1] # "array"
    THEN deepMerge(current, update)
    ELSE update

\* the resolution of set without the test `&& reducer` of line 95: an object
\* with a type key is dispatched whether a reducer is configured or not
NextStateOfSetAlwaysDispatches(current, update, opts) ==
    IF update[1] = "function"
    THEN IF TypeOf(current) # "object" \/ current = Null
         THEN CallUpdate(update[2], current).ret
         ELSE CallUpdate(update[2], deepClone(current)).arg
    ELSE IF Truthy(update) /\ TypeOf(update) = "object" /\ HasKey(update, "type")
    THEN CallReducer(deepClone(current), update)
    ELSE IF /\ Truthy(update) /\ TypeOf(update) = "object" /\ update[1] # "array"
            /\ Truthy(current) /\ TypeOf(current) = "object" /\ current[1] # "array"
    THEN deepMerge(current, update)
    ELSE update

\* the candidate next value of set(update), lines 77-116
NextStateOfSet(current, update, opts) ==
    IF update[1] = "function"
    THEN IF TypeOf(current) # "object" \/ current = Null
         THEN CallUpdate(update[2], current).ret
         ELSE CallUpdate(update[2], deepClone(current)).arg
    ELSE IF /\ Truthy(update) /\ TypeOf(update) = "object" /\ HasKey(update, "type")
            /\ opts.reducer
    THEN CallReducer(deepClone(current), update)
    ELSE IF /\ Truthy(update) /\ TypeOf(update) = "object" /\ update[1] # "array"
            /\ Truthy(current) /\ TypeOf(current) = "object" /\ current[1] # "array"
    THEN deepMerge(current, update)
    ELSE update

\* the options of a context store
ContextOptions ==
    { [reducer |-> r, persistKey |-> k, persistFields |-> f] :
        r \in BOOLEAN, k \in BOOLEAN, f \in {<<>>, <<"cv">>} }

\* what an earlier session of the store can have left in the slot, or another
\* writer: nothing, an unreadable text, a whole record, the cv field alone
StoredTexts ==
    { Absent, Garbage,
      JsonText(Obj(<< <<"count", Num(1)>>, <<"cv", Obj(<< <<"id", Bool(TRUE)>> >>)>> >>)),
      JsonText(Obj(<< <<"cv", Obj(<< <<"id", Bool(TRUE)>> >>)>> >>)) }

\* Updates of a record context store: those of a record store, a partial
\* object that changes cv, and an Action
ContextRecordUpdates ==
    RecordUpdates \cup
    { Obj(<< <<"cv", Obj(<< <<"id", Bool(TRUE)>> >>)>> >>),
      Obj(<< <<"type", Str("flip")>> >>) }

ContextUpdatesFor(current) ==
    IF current[1] = "object" THEN ContextRecordUpdates ELSE ScalarUpdates

\* the provider mounts: store = useRef(loadState()), subscribers = new Set().
\* persistFields are keys of T, so a scalar store has none.
InitContext(init, opts, slot, denied) ==
    /\ variant = "context"
    /\ listeners = <<>>
    /\ initialState = init
    /\ options = opts
    /\ storage = slot
    /\ store = loadState(init, opts, slot, denied)
    /\ subscribers = <<>>
    /\ history = <<>>
    /\ currentIndex = 0
    /\ timerPending = FALSE
    /\ timerLeft = 0
    /\ latestVersion = Undef
    /\ frames = 0
    /\ fires = 0
    /\ burst = "none"
    /\ rt = NoRoundTrip
    /\ consumer = NoConsumer
    /\ lastOp = Op("create", TRUE, <<>>,
                   IF ~opts.persistKey THEN "none" ELSE IF denied THEN "failed" ELSE "ok")

\* set without the catch of lines 62-64: a rejected write leaves set before
\* the subscribers are called
setNoCatch(update, quota) ==
    /\ variant = "context"
    /\ LET nextState == NextStateOfSet(store, update, options)
       IN IF ~deepEqual(store, nextState)
          THEN /\ store' = nextState
               /\ IF ~options.persistKey
                  THEN /\ storage' = storage
                       /\ lastOp' = Op("set", TRUE, subscribers, "none")
                  ELSE IF quota
                  THEN /\ storage' = storage
                       /\ lastOp' = Op("set", TRUE, <<>>, "failed")
                  ELSE /\ storage' = PersistedText(nextState, options)
                       /\ lastOp' = Op("set", TRUE, subscribers, "ok")
          ELSE /\ lastOp' = Op("set", FALSE, <<>>, "none")
               /\ UNCHANGED <<store, storage>>
    /\ UNCHANGED <<consumer, variant, listeners, initialState, subscribers, options, histVars>>

\* set(update), lines 73-125; quota: localStorage.setItem throws
set(update, quota) ==
    /\ variant = "context"
    /\ LET nextState == NextStateOfSet(store, update, options)
       IN IF ~deepEqual(store, nextState)
          THEN /\ store' = nextState
               /\ IF ~options.persistKey
                  THEN /\ storage' = storage
                       /\ lastOp' = Op("set", TRUE, subscribers, "none")
                  ELSE IF quota
                  THEN /\ storage' = storage
                       /\ lastOp' = Op("set", TRUE, subscribers, "failed")
                  ELSE /\ storage' = PersistedText(nextState, options)
                       /\ lastOp' = Op("set", TRUE, subscribers, "ok")
          ELSE /\ lastOp' = Op("set", FALSE, <<>>, "none")
               /\ UNCHANGED <<store, storage>>
    /\ UNCHANGED <<consumer, variant, listeners, initialState, subscribers, options, histVars>>

----------------------------------------------------------------------------
(* The hooks: useDataStore (part_004), useContextStore and useStoreDispatch *)
(* (context.provider.tsx), and the two snapshot functions they hand to      *)
(* useSyncExternalStore.                                                    *)

\* the selectors a component passes: (s) => s, (s) => s.count, (s) => s.cv
Selectors == {"whole", "count", "cv"}

SelectorsFor(state) == IF state[1] = "object" THEN Selectors ELSE {"whole"}

\* selector(state)
Select(selector, state) ==
    CASE selector = "whole" -> state
      [] selector = "count" -> Get(state, "count")
      [] selector = "cv" -> Get(state, "cv")

\* an operation that hands ret back to its caller
OpRet(op, acted, ret) == [Op(op, acted, <<>>, "none") EXCEPT !.ret = ret]

\* useDataStore(selector), first render: lastSelectedRef = useRef(selector(getStore()))
\* and useSyncExternalStore returns what getSnapshot returns
useDataStore(selector) ==
    /\ variant = "history"
    /\ ~consumer.mounted
    /\ consumer' = [mounted |-> TRUE, selector |-> selector, last |-> Select(selector, store)]
    /\ lastOp' = OpRet("useDataStore", TRUE, Select(selector, store))
    /\ UNCHANGED <<variant, listeners, initialState, store, subscribers, ctxVars, histVars>>

\* useContextStore(selector), first render; inProvider: the component is
\* rendered below a ContextStoreProvider, so that useContext(ContextStore) is
\* the provider's value and not the default null of createContext(null)
useContextStore(selector, inProvider) ==
    /\ variant = "context"
    /\ IF ~inProvider
       THEN /\ lastOp' = OpRet("useContextStore", FALSE, Thrown("Store not found"))
            /\ consumer' = consumer
       ELSE /\ ~consumer.mounted
            /\ consumer' = [mounted |-> TRUE, selector |-> selector,
                            last |-> Select(selector, store)]
            /\ lastOp' = OpRet("useContextStore", TRUE, Select(selector, store))
    /\ UNCHANGED <<variant, listeners, initialState, store, subscribers, ctxVars, histVars>>

\* useStoreDispatch without the test of line 171
useStoreDispatchUnchecked(inProvider) ==
    /\ variant = "context"
    /\ lastOp' = OpRet("useStoreDispatch", inProvider, IF inProvider THEN Fn("set") ELSE Undef)
    /\ UNCHANGED <<consumer, variant, listeners, initialState, store, subscribers, ctxVars, histVars>>

\* useStoreDispatch(), lines 169-174
useStoreDispatch(inProvider) ==
    /\ variant = "context"
    /\ lastOp' = IF inProvider
                 THEN OpRet("useStoreDispatch", TRUE, Fn("set"))
                 ELSE OpRet("useStoreDispatch", FALSE, Thrown("Store not found"))
    /\ UNCHANGED <<consumer, variant, listeners, initialState, store, subscribers, ctxVars, histVars>>

\* getSnapshot that hands out every selection it makes
getSnapshotNoReuse ==
    /\ consumer.mounted
    /\ consumer' = [consumer EXCEPT !.last = Select(consumer.selector, store)]
    /\ lastOp' = OpRet("getSnapshot", TRUE, consumer'.last)
    /\ UNCHANGED <<variant, listeners, initialState, store, subscribers, ctxVars, histVars>>

\* the getSnapshot of useSyncExternalStore: lines 158-164 (context) and 141-147
\* (history); acted: lastSelectedRef.current was assigned
getSnapshot ==
    /\ consumer.mounted
    /\ LET selected == Select(consumer.selector, store)
       IN IF ~deepEqual(consumer.last, selected)
          THEN /\ consumer' = [consumer EXCEPT !.last = selected]
               /\ lastOp' = OpRet("getSnapshot", TRUE, selected)
          ELSE /\ consumer' = consumer
               /\ lastOp' = OpRet("getSnapshot", FALSE, consumer.last)
    /\ UNCHANGED <<variant, listeners, initialState, store, subscribers, ctxVars, histVars>>

\* getServerSnapshot that selects from the live value
getServerSnapshotOfStore ==
    /\ consumer.mounted
    /\ lastOp' = OpRet("getServerSnapshot", TRUE, Select(consumer.selector, store))
    /\ UNCHANGED <<consumer, variant, listeners, initialState, store, subscribers, ctxVars, histVars>>

\* the getServerSnapshot of useSyncExternalStore: () => selector(initialState)
getServerSnapshot ==
    /\ consumer.mounted
    /\ lastOp' = OpRet("getServerSnapshot", TRUE, Select(consumer.selector, initialState))
    /\ UNCHANGED <<consumer, variant, listeners, initialState, store, subscribers, ctxVars, histVars>>

----------------------------------------------------------------------------
Init ==
    \/ \E init \in InitialStates : InitHistory(init)
    \/ \E opts \in ContextOptions, slot \in StoredTexts, denied \in BOOLEAN :
          /\ opts.persistKey \/ (slot = Absent /\ ~denied /\ opts.persistFields = <<>>)
          /\ InitContext(RecordInit, opts, slot, denied)
    \/ \E r \in BOOLEAN, k \in BOOLEAN :
          InitContext(ScalarInit, [reducer |-> r, persistKey |-> k, persistFields |-> <<>>],
                      Absent, FALSE)

\* the operations of createDataStore, the timer and the animation frame
NextHistory ==
    \/ \E update \in UpdatesFor(store) : setStore(update)
    \/ Tick
    \/ TimerFire
    \/ \E versionIndex \in -1..Len(history) : rollbackTo(versionIndex)
    \/ undo
    \/ redo
    \/ resetStore
    \/ AnimationFrame

\* createDataStore on a number under fair timers: time passes (Tick) and a
\* due timer's callback is run (TimerFire), as setTimeout promises; the
\* callers' operations are under no obligation.  A change is only made while
\* the timer may still fire within MaxFires.
NextLive ==
    \/ \E update \in UpdatesFor(store) : fires < MaxFires /\ setStore(update)
    \/ Tick
    \/ TimerFire
    \/ \E versionIndex \in -1..Len(history) : rollbackTo(versionIndex)
    \/ undo
    \/ redo
    \/ resetStore
    \/ AnimationFrame

SpecLive ==
    /\ InitHistory(ScalarInit)
    /\ [][NextLive]_vars
    /\ WF_vars(Tick)
    /\ WF_vars(TimerFire)

Next ==
    \/ \E update \in ContextUpdatesFor(store), quota \in BOOLEAN : set(update, quota)
    \/ NextHistory
    \/ \E callback \in Callbacks : subscribe(callback)
    \/ \E callback \in Callbacks : unsubscribe(callback)

Spec == Init /\ [][Next]_vars

\* The operations, with the repeated registrations and the repeated calls of
\* an unregister function told apart from the first ones
NextSubscribers ==
    \/ Next
    \/ \E callback \in Callbacks : subscribeAgain(callback)
    \/ \E callback \in Callbacks : unsubscribeAgain(callback)

SpecSubscribers == Init /\ [][NextSubscribers]_vars

\* The operations of a store and of one component that reads it through the
\* hook; no other callback is registered
NextHook ==
    \/ \E update \in ContextUpdatesFor(store), quota \in BOOLEAN : set(update, quota)
    \/ NextHistory
    \/ \E selector \in SelectorsFor(store) : useDataStore(selector)
    \/ \E selector \in SelectorsFor(store), inProvider \in BOOLEAN :
          useContextStore(selector, inProvider)
    \/ \E inProvider \in BOOLEAN : useStoreDispatch(inProvider)
    \/ getSnapshot
    \/ getServerSnapshot

SpecHook == Init /\ [][NextHook]_vars

----------------------------------------------------------------------------
(* The utilities of object.util.ts called on their own *)

Scalars == {Undef, Null, Num(0), Num(1), NaN, Bool(TRUE), Str("a"), Fn("f")}

\* the values built from scalars, records and sequences that nest at most n deep
RECURSIVE Values(_)
Values(n) ==
    IF n = 0 THEN Scalars
    ELSE Values(n - 1)
         \cup { Arr(<<x>>) : x \in Values(n - 1) }
         \cup { Obj(<< <<"a", x>> >>) : x \in Values(n - 1) }
         \cup { Obj(<< <<"a", x>>, <<"b", y>> >>) : x \in Scalars, y \in Values(n - 1) }

\* a caller holds the value source and no store is involved
InitUtil(source) ==
    /\ variant = "util"
    /\ listeners = <<>>
    /\ initialState = source
    /\ store = source
    /\ subscribers = <<>>
    /\ options = NoOptions
    /\ storage = Absent
    /\ history = <<>>
    /\ currentIndex = 0
    /\ timerPending = FALSE
    /\ timerLeft = 0
    /\ latestVersion = Undef
    /\ frames = 0
    /\ fires = 0
    /\ burst = "none"
    /\ rt = NoRoundTrip
    /\ consumer = NoConsumer
    /\ lastOp = Op("create", TRUE, <<>>, "none")

\* deepClone(source) called by itself: what it returns
callDeepClone ==
    /\ variant = "util"
    /\ lastOp' = OpRet("deepClone", TRUE, deepClone(store))
    /\ UNCHANGED <<consumer, variant, listeners, initialState, store, subscribers, ctxVars, histVars>>

\* deepEqual(source, deepClone(source)) called by itself
callDeepEqual ==
    /\ variant = "util"
    /\ lastOp' = OpRet("deepEqual", TRUE, Bool(deepEqual(store, deepClone(store))))
    /\ UNCHANGED <<consumer, variant, listeners, initialState, store, subscribers, ctxVars, histVars>>

NextUtil == callDeepClone \/ callDeepEqual

SpecUtil == (\E source \in Values(MaxNest) : InitUtil(source)) /\ [][NextUtil]_vars

\* Second arguments for the utilities that take two: scalars, records around
\* the keys a and b (with undefined, null, nested record and array values),
\* and values made from the first argument: itself, its copy, its properties
\* in reverse order, the record that has its indices or keys as keys, the
\* sequence of its values, and the empty record and sequence
Partners(source) ==
    Scalars
    \cup { Obj(<< <<"a", x>> >>) :
              x \in {Undef, Null, Num(1), Obj(<< <<"a", Num(1)>> >>),
                     Obj(<< <<"b", Undef>> >>), Arr(<<Num(1)>>)} }
    \cup { Obj(<< <<"b", Str("a")>>, <<"a", Num(0)>> >>), Obj(<< <<"c", Num(1)>> >>) }
    \cup { source, deepClone(source), Obj(<<>>), Arr(<<>>) }
    \cup ( IF IsObjectLike(source)
           THEN { Obj(OwnProps(source)),
                  Arr([i \in 1..Len(OwnProps(source)) |-> OwnProps(source)[i][2]]) }
           ELSE {} )
    \cup ( IF source[1] = "object" THEN {Reversed(source)} ELSE {} )

\* a caller holds the values source (initialState) and destination (store)
InitPair(source, destination) ==
    /\ variant = "util"
    /\ listeners = <<>>
    /\ initialState = source
    /\ store = destination
    /\ subscribers = <<>>
    /\ options = NoOptions
    /\ storage = Absent
    /\ history = <<>>
    /\ currentIndex = 0
    /\ timerPending = FALSE
    /\ timerLeft = 0
    /\ latestVersion = Undef
    /\ frames = 0
    /\ fires = 0
    /\ burst = "none"
    /\ rt = NoRoundTrip
    /\ consumer = NoConsumer
    /\ lastOp = Op("create", TRUE, <<>>, "none")

\* deepEqual(source, destination) called by itself
callDeepEqualOfPair ==
    /\ variant = "util"
    /\ lastOp' = OpRet("deepEqual", TRUE, Bool(deepEqual(initialState, store)))
    /\ UNCHANGED <<consumer, variant, listeners, initialState, store, subscribers, ctxVars, histVars>>

\* deepMerge(target, source) called by itself on two records (target is
\* initialState here, source is store)
callDeepMergeOfPair ==
    /\ variant = "util"
    /\ initialState[1] = "object"
    /\ store[1] = "object"
    /\ lastOp' = OpRet("deepMerge", TRUE, deepMerge(initialState, store))
    /\ UNCHANGED <<consumer, variant, listeners, initialState, store, subscribers, ctxVars, histVars>>

NextPair == callDeepEqualOfPair \/ callDeepMergeOfPair

(* registerShortcuts: src/unnamed/part_004, lines 152-183 *)

\* event.key of the key-down events: z and y as typed without and with Shift
\* or Caps Lock, and a key that is bound to nothing
Keys == {"z", "Z", "y", "Y", "a"}

\* event.key.toLowerCase()
ToLowerCase(key) ==
    CASE key = "Z" -> "z"
      [] key = "Y" -> "y"
      [] OTHER -> key

\* isUndo without the test of event.shiftKey
isUndoAnyShift(key, ctrlKey, metaKey, shiftKey) ==
    (ctrlKey \/ metaKey) /\ ToLowerCase(key) = "z"

\* lines 158-161
isUndo(key, ctrlKey, metaKey, shiftKey) ==
    (ctrlKey \/ metaKey) /\ ToLowerCase(key) = "z" /\ ~shiftKey

\* lines 163-165
isRedo(key, ctrlKey, metaKey, shiftKey) ==
    /\ ctrlKey \/ metaKey
    /\ (ToLowerCase(key) = "z" /\ shiftKey) \/ ToLowerCase(key) = "y"

\* the handlers that are attached, in the order window calls them
Attached == SelectSeq([h \in 1..Len(listeners) |-> h], LAMBDA h : listeners[h])

\* registerShortcuts(); window: typeof window !== "undefined".  Without a
\* window nothing is attached and nothing is returned; with one a new handler
\* is attached and the function that removes it is returned.
registerShortcuts(window) ==
    /\ variant = "history"
    /\ Len(listeners) < MaxHandlers
    /\ IF window
       THEN /\ listeners' = Append(listeners, TRUE)
            /\ lastOp' = OpRet("registerShortcuts", TRUE, Fn("detach"))
       ELSE /\ listeners' = listeners
            /\ lastOp' = OpRet("registerShortcuts", FALSE, Undef)
    /\ UNCHANGED <<consumer, variant, initialState, store, subscribers, ctxVars, histVars>>

\* the function registerShortcuts returned for handler, called (any number
\* of times): window.removeEventListener("keydown", handler)
detach(handler) ==
    /\ variant = "history"
    /\ handler \in 1..Len(listeners)
    /\ listeners' = [listeners EXCEPT ![handler] = FALSE]
    /\ lastOp' = OpRet("detach", listeners[handler], Undef)
    /\ UNCHANGED <<consumer, variant, initialState, store, subscribers, ctxVars, histVars>>

\* undo() and redo(), lines 91-106, on the cursor, the live value and the
\* animation frames requested so far
UndoFrom(s) ==
    IF s.currentIndex > 0
    THEN [currentIndex |-> s.currentIndex - 1,
          store |-> deepClone(history[(s.currentIndex - 1) + 1]),
          frames |-> s.frames + 1]
    ELSE s

RedoFrom(s) ==
    IF s.currentIndex < Len(history) - 1
    THEN [currentIndex |-> s.currentIndex + 1,
          store |-> deepClone(history[(s.currentIndex + 1) + 1]),
          frames |-> s.frames + 1]
    ELSE s

\* one handler on one event, lines 155-176
HandlerFrom(s, key, ctrlKey, metaKey, shiftKey) ==
    LET undone == IF isUndo(key, ctrlKey, metaKey, shiftKey) THEN UndoFrom(s) ELSE s
    IN IF isRedo(key, ctrlKey, metaKey, shiftKey) THEN RedoFrom(undone) ELSE undone

\* the operations one handler invokes on one event, in order
HandlerCalls(key, ctrlKey, metaKey, shiftKey) ==
    (IF isUndo(key, ctrlKey, metaKey, shiftKey) THEN <<"undo">> ELSE <<>>)
        \o (IF isRedo(key, ctrlKey, metaKey, shiftKey) THEN <<"redo">> ELSE <<>>)

RECURSIVE HandlersFrom(_, _, _, _, _, _)
HandlersFrom(s, n, key, ctrlKey, metaKey, shiftKey) ==
    IF n = 0 THEN s
    ELSE HandlersFrom(HandlerFrom(s, key, ctrlKey, metaKey, shiftKey), n - 1,
                      key, ctrlKey, metaKey, shiftKey)

\* the event object after its dispatch
KeyboardEvent(key, ctrlKey, metaKey, shiftKey, defaultPrevented) ==
    Obj(<< <<"key", Str(key)>>, <<"ctrlKey", Bool(ctrlKey)>>, <<"metaKey", Bool(metaKey)>>,
           <<"shiftKey", Bool(shiftKey)>>, <<"defaultPrevented", Bool(defaultPrevented)>> >>)

\* window dispatches a key-down event: every attached handler runs, in order.
\* calls: the operations of the store they invoke; ret: the event as the
\* handlers leave it
keydown(key, ctrlKey, metaKey, shiftKey) ==
    /\ variant = "history"
    /\ LET after == HandlersFrom([currentIndex |-> currentIndex, store |-> store,
                                  frames |-> frames],
                                 Len(Attached), key, ctrlKey, metaKey, shiftKey)
           calls == Repeat(HandlerCalls(key, ctrlKey, metaKey, shiftKey), Len(Attached))
       IN /\ after.frames <= MaxFrames
          /\ InDepth(after.currentIndex)
          /\ currentIndex' = after.currentIndex
          /\ store' = after.store
          /\ frames' = after.frames
          /\ burst' = IF calls # <<>> THEN "none" ELSE burst
          /\ rt' = IF calls # <<>> THEN NoRoundTrip ELSE rt
          /\ lastOp' = [op |-> "keydown", acted |-> calls # <<>>, calls |-> calls,
                        wrote |-> "none",
                        ret |-> KeyboardEvent(key, ctrlKey, metaKey, shiftKey, calls # <<>>)]
    /\ UNCHANGED <<consumer, variant, listeners, initialState, subscribers, ctxVars, history,
                   timerPending, timerLeft, latestVersion, fires>>

\* A history store of a number with three entries and the cursor on the
\* last: the state createDataStore(0) is in after setStore(1), animation
\* frame, timer fire, setStore(0), animation frame, timer fire.
InitStepped ==
    /\ variant = "history"
    /\ listeners = <<>>
    /\ initialState = ScalarInit
    /\ store = Num(0)
    /\ subscribers = <<>>
    /\ options = NoOptions
    /\ storage = Absent
    /\ history = <<Num(0), Num(1), Num(0)>>
    /\ currentIndex = 2
    /\ timerPending = FALSE
    /\ timerLeft = 0
    /\ latestVersion = Undef
    /\ frames = 0
    /\ fires = 2
    /\ burst = "one"
    /\ rt = [phase |-> "snapshot", v0 |-> Num(1), v1 |-> Num(0)]
    /\ lastOp = Op("timer", TRUE, <<>>, "none")
    /\ consumer = NoConsumer

\* the keyboard and the animation frames of a history store that is idle
NextKeys ==
    \/ AnimationFrame
    \/ \E window \in BOOLEAN : registerShortcuts(window)
    \/ \E handler \in 1..MaxHandlers : detach(handler)
    \/ \E key \in Keys, ctrlKey \in BOOLEAN, metaKey \in BOOLEAN, shiftKey \in BOOLEAN :
          keydown(key, ctrlKey, metaKey, shiftKey)

\* the keyboard acts on the cursor alone: the store of a number, as
\* constructed and with three entries, is enough
SpecKeys == (InitHistory(ScalarInit) \/ InitStepped) /\ [][NextKeys]_vars

(* The references of createDataStore (src/unnamed/part_004).  In this view   *)
(* (variant = "refs") a variable holds, in place of a value, the set of the  *)
(* objects (records and sequences, named by numbers) that can be reached     *)
(* from that value; a scalar reaches none.  consumer.last is the set of the  *)
(* objects the code around the store holds a reference to: what it made,     *)
(* what it handed to the store and what the store handed to it.  An          *)
(* assignment of the source hands the objects on, deepClone makes a new one. *)

\* the objects the calling code can reach
Held == consumer.last

Hold(refs) == [consumer EXCEPT !.last = @ \cup refs]

\* the objects some variable of the store or the calling code still reaches
InUse ==
    initialState \cup store \cup latestVersion \cup Held
        \cup UNION {history[i] : i \in 1..Len(history)}

Unused == {n \in 1..MaxRefs : n \notin InUse}

\* the next object allocated, and the one after it
Fresh == CHOOSE n \in Unused : \A m \in Unused : n <= m
FreshAfter == CHOOSE n \in Unused \ {Fresh} : \A m \in Unused \ {Fresh} : n <= m

\* deepClone that hands back its argument
deepCloneRefsShared(refs, fresh) == refs

\* deepClone(source), object.util.ts lines 25-35: a scalar as it is, else a
\* new object that reaches nothing of the source
deepCloneRefs(refs, fresh) == IF refs = {} THEN {} ELSE {fresh}

\* the update function or the reducer is handed the live value itself
DraftInPlace(refs, fresh) == refs

\* nextState = deepClone(store): the draft an update function or a reducer
\* is handed, part_004 line 34, context.provider.tsx lines 88 and 98
DraftOf(refs, fresh) == deepCloneRefs(refs, fresh)

\* the two reference views: of createDataStore and of createContextStore
RefViews == {"refs", "refsContext"}

\* createDataStore(initialState) for a record the caller made (object 1)
InitRefs ==
    /\ variant = "refs"
    /\ listeners = <<>>
    /\ initialState = {1}
    /\ store = deepCloneRefs({1}, 2)
    /\ history = <<deepCloneRefs(deepCloneRefs({1}, 2), 3)>>
    /\ currentIndex = 0
    /\ timerPending = FALSE
    /\ timerLeft = 0
    /\ latestVersion = {}
    /\ subscribers = <<>>
    /\ options = NoOptions
    /\ storage = Absent
    /\ frames = 0
    /\ fires = 0
    /\ burst = "none"
    /\ rt = NoRoundTrip
    /\ consumer = [mounted |-> FALSE, selector |-> "none", last |-> {1}]
    /\ lastOp = Op("create", TRUE, <<>>, "none")

refsFixed == <<variant, listeners, initialState, subscribers, ctxVars, timerLeft, frames, burst, rt>>

\* the calling code makes a record or a sequence
newObject ==
    /\ variant \in RefViews
    /\ Unused # {}
    /\ consumer' = Hold({Fresh})
    /\ lastOp' = Op("newObject", TRUE, <<>>, "none")
    /\ UNCHANGED <<refsFixed, fires, store, history, currentIndex, timerPending, latestVersion>>

\* getStore(), lines 15-17: the live value itself
getStore ==
    /\ variant = "refs"
    /\ consumer' = Hold(store)
    /\ lastOp' = Op("getStore", TRUE, <<>>, "none")
    /\ UNCHANGED <<refsFixed, fires, store, history, currentIndex, timerPending, latestVersion>>

\* the calling code writes into an object it holds; acted: the object is
\* reached from an entry of history
mutate(object) ==
    /\ variant \in RefViews
    /\ object \in Held
    /\ lastOp' = [op |-> "mutate",
                  acted |-> \E i \in 1..Len(history) : object \in history[i],
                  calls |-> <<>>, wrote |-> "none", ret |-> Num(object)]
    /\ UNCHANGED <<refsFixed, fires, consumer, store, history, currentIndex, timerPending,
                   latestVersion>>

\* setStore(update), lines 25-79.  kind: the branch update takes; given: what
\* the update object reaches, or what the update function returns reaches
\* (none when it returns undefined); accepted: deepEqual(store, nextState) is
\* false.  The function is handed the draft and may keep it.  ret: the
\* objects the call wrote into, the draft of a function or the copy deepMerge
\* fills.
setStoreRefs(kind, given, accepted) ==
    /\ variant = "refs"
    /\ Cardinality(Unused) >= 2
    /\ kind = "merge" => (store # {} /\ given # {})
    /\ LET draft == IF kind = "function" THEN DraftOf(store, Fresh) ELSE {}
           merged == IF kind = "merge" THEN deepCloneRefs(store, Fresh) ELSE {}
           nextState ==
               CASE kind = "function" -> IF given = {} THEN draft ELSE given
                 [] kind = "merge" -> merged \cup given
                 [] kind = "replace" -> given
       IN /\ consumer' = Hold(draft)
          /\ IF accepted
             THEN /\ store' = nextState
                  /\ latestVersion' = deepCloneRefs(nextState, FreshAfter)
                  /\ timerPending' = TRUE
                  /\ lastOp' = OpRet("setStore", TRUE, draft \cup merged)
             ELSE /\ lastOp' = OpRet("setStore", FALSE, draft \cup merged)
                  /\ UNCHANGED <<store, latestVersion, timerPending>>
    /\ UNCHANGED <<refsFixed, fires, history, currentIndex>>

\* the callback of setTimeout(..., 200), lines 65-75
TimerFireRefs ==
    /\ variant = "refs"
    /\ timerPending
    /\ fires < MaxFires
    /\ fires' = fires + 1
    /\ LET pushed == Append(SubSeq(history, 1, currentIndex + 1), latestVersion)
       IN IF Len(pushed) > MAX_HISTORY
          THEN /\ history' = Tail(pushed)
               /\ currentIndex' = (Len(pushed) - 1) - 1
          ELSE /\ history' = pushed
               /\ currentIndex' = Len(pushed) - 1
    /\ timerPending' = FALSE
    /\ latestVersion' = {}
    /\ lastOp' = Op("timer", TRUE, <<>>, "none")
    /\ UNCHANGED <<refsFixed, consumer, store>>

\* rollbackTo(versionIndex), lines 82-88
rollbackToRefs(versionIndex) ==
    /\ variant = "refs"
    /\ Unused # {}
    /\ IF versionIndex >= 0 /\ versionIndex < Len(history)
       THEN /\ InDepth(versionIndex)
            /\ currentIndex' = versionIndex
            /\ store' = deepCloneRefs(history[versionIndex + 1], Fresh)
            /\ lastOp' = Op("rollbackTo", TRUE, <<>>, "none")
       ELSE /\ lastOp' = Op("rollbackTo", FALSE, <<>>, "none")
            /\ UNCHANGED <<store, currentIndex>>
    /\ UNCHANGED <<refsFixed, fires, consumer, history, timerPending, latestVersion>>

\* undo(), lines 91-97
undoRefs ==
    /\ variant = "refs"
    /\ Unused # {}
    /\ IF currentIndex > 0
       THEN /\ InDepth(currentIndex - 1)
            /\ currentIndex' = currentIndex - 1
            /\ store' = deepCloneRefs(history[(currentIndex - 1) + 1], Fresh)
            /\ lastOp' = Op("undo", TRUE, <<>>, "none")
       ELSE /\ lastOp' = Op("undo", FALSE, <<>>, "none")
            /\ UNCHANGED <<store, currentIndex>>
    /\ UNCHANGED <<refsFixed, fires, consumer, history, timerPending, latestVersion>>

\* redo(), lines 100-106
redoRefs ==
    /\ variant = "refs"
    /\ Unused # {}
    /\ IF currentIndex < Len(history) - 1
       THEN /\ currentIndex' = currentIndex + 1
            /\ store' = deepCloneRefs(history[(currentIndex + 1) + 1], Fresh)
            /\ lastOp' = Op("redo", TRUE, <<>>, "none")
       ELSE /\ lastOp' = Op("redo", FALSE, <<>>, "none")
            /\ UNCHANGED <<store, currentIndex>>
    /\ UNCHANGED <<refsFixed, fires, consumer, history, timerPending, latestVersion>>

\* resetStore(), lines 109-114
resetStoreRefs ==
    /\ variant = "refs"
    /\ Cardinality(Unused) >= 2
    /\ store' = deepCloneRefs(initialState, Fresh)
    /\ history' = <<deepCloneRefs(initialState, FreshAfter)>>
    /\ currentIndex' = 0
    /\ lastOp' = Op("resetStore", TRUE, <<>>, "none")
    /\ UNCHANGED <<refsFixed, fires, consumer, timerPending, latestVersion>>

\* getHistory(), lines 117-119: history.map((h) => deepClone(h)), a new array
\* of new objects
getHistory ==
    /\ variant = "refs"
    /\ Unused # {}
    /\ consumer' = Hold(deepCloneRefs(UNION {history[i] : i \in 1..Len(history)}, Fresh))
    /\ lastOp' = Op("getHistory", TRUE, <<>>, "none")
    /\ UNCHANGED <<refsFixed, fires, store, history, currentIndex, timerPending, latestVersion>>

\* what the calling code hands to setStore: a scalar, or a record or sequence
\* it holds
Givens == {{}} \cup {{a} : a \in Held}

NextRefs ==
    \/ newObject
    \/ getStore
    \/ \E object \in 1..MaxRefs : mutate(object)
    \/ \E kind \in {"function", "merge", "replace"}, given \in Givens,
          accepted \in BOOLEAN : setStoreRefs(kind, given, accepted)
    \/ TimerFireRefs
    \/ \E versionIndex \in -1..Len(history) : rollbackToRefs(versionIndex)
    \/ undoRefs
    \/ redoRefs
    \/ resetStoreRefs
    \/ getHistory

SpecRefs == InitRefs /\ [][NextRefs]_vars

\* createContextStore(initialState, { reducer, persistKey }) for a record the
\* caller made (object 1): the first live value is initialState itself
\* (loadState, lines 16, 19 and 36) or, hydrated from the slot, a new object
\* that holds the nested records of initialState ({ ...initialState,
\* ...parsed }, lines 32 and 34)
InitRefsContext(reducer, hydrated) ==
    /\ variant = "refsContext"
    /\ listeners = <<>>
    /\ initialState = {1}
    /\ store = IF hydrated THEN {1, 2} ELSE {1}
    /\ history = <<>>
    /\ currentIndex = 0
    /\ timerPending = FALSE
    /\ timerLeft = 0
    /\ latestVersion = {}
    /\ subscribers = <<>>
    /\ options = [reducer |-> reducer, persistKey |-> hydrated, persistFields |-> <<>>]
    /\ storage = Absent
    /\ frames = 0
    /\ fires = 0
    /\ burst = "none"
    /\ rt = NoRoundTrip
    /\ consumer = [mounted |-> FALSE, selector |-> "none", last |-> {1}]
    /\ lastOp = Op("create", TRUE, <<>>, "none")

\* get(), line 71, and the selector of useContextStore: the live value itself
getRefs ==
    /\ variant = "refsContext"
    /\ consumer' = Hold(store)
    /\ lastOp' = Op("get", TRUE, <<>>, "none")
    /\ UNCHANGED <<refsFixed, fires, store, history, currentIndex, timerPending, latestVersion>>

\* set(update), lines 73-125.  kind: the branch update takes; given: what the
\* update object reaches, or what the update function returns reaches;
\* accepted: deepEqual(store.current, nextState) is false.  The function and
\* the reducer are handed the draft and may keep it; what the function
\* returns on a draft is dropped.  ret: the objects the call wrote into.
setRefs(kind, given, accepted) ==
    /\ variant = "refsContext"
    /\ Unused # {}
    /\ kind = "reducer" => (options.reducer /\ given # {})
    /\ kind = "merge" => (store # {} /\ given # {})
    /\ LET draft == IF kind \in {"function", "reducer"} THEN DraftOf(store, Fresh) ELSE {}
           merged == IF kind = "merge" THEN deepCloneRefs(store, Fresh) ELSE {}
           nextState ==
               CASE kind = "function" -> IF store = {} THEN given ELSE draft
                 [] kind = "reducer" -> draft
                 [] kind = "merge" -> merged \cup given
                 [] kind = "replace" -> given
       IN /\ consumer' = Hold(draft)
          /\ IF accepted
             THEN /\ store' = nextState
                  /\ lastOp' = OpRet("set", TRUE, draft \cup merged)
             ELSE /\ store' = store
                  /\ lastOp' = OpRet("set", FALSE, draft \cup merged)
    /\ UNCHANGED <<refsFixed, fires, history, currentIndex, timerPending, latestVersion>>

\* the references of both stores
NextWrites ==
    \/ NextRefs
    \/ getRefs
    \/ \E kind \in {"function", "reducer", "merge", "replace"}, given \in Givens,
          accepted \in BOOLEAN : setRefs(kind, given, accepted)

SpecWrites ==
    /\ InitRefs \/ \E reducer \in BOOLEAN, hydrated \in BOOLEAN :
                      InitRefsContext(reducer, hydrated)
    /\ [][NextWrites]_vars

\* Stores of every shape, record, scalar and sequence, given updates of every
\* shape that is not a function: partial records, an Action, the empty
\* record, a sequence, scalars, null and undefined
ShapeInits == {RecordInit, ScalarInit, Arr(<<Num(0)>>)}

ShapeUpdates ==
    { Obj(<< <<"count", Num(1)>> >>),
      Obj(<< <<"cv", Obj(<< <<"id", Bool(TRUE)>> >>)>> >>),
      Obj(<< <<"type", Str("flip")>>, <<"payload", Num(1)>> >>),
      Obj(<<>>), Arr(<<Num(1)>>), Num(1), Str("a"), Null, Undef }

InitShape ==
    \/ \E init \in ShapeInits : InitHistory(init)
    \/ \E init \in ShapeInits, r \in BOOLEAN :
          InitContext(init, [reducer |-> r, persistKey |-> FALSE, persistFields |-> <<>>],
                      Absent, FALSE)

NextShape ==
    \/ \E update \in ShapeUpdates : set(update, FALSE)
    \/ \E update \in ShapeUpdates : setStore(update)
    \/ AnimationFrame

SpecShape == InitShape /\ [][NextShape]_vars

\* What a slot can hold when a store hydrates from it: nothing, an
\* unreadable text, or the text of a whole record, of some of its keys, of a
\* record with an emptied nested record, of a record with a foreign key, of
\* the empty record, of a number, of null, of a sequence
HydrateTexts ==
    { Absent, Garbage,
      JsonText(Obj(<< <<"count", Num(1)>>, <<"cv", Obj(<< <<"id", Bool(TRUE)>> >>)>> >>)),
      JsonText(Obj(<< <<"cv", Obj(<< <<"id", Bool(TRUE)>> >>)>> >>)),
      JsonText(Obj(<< <<"count", Num(1)>> >>)),
      JsonText(Obj(<< <<"cv", Obj(<<>>)>> >>)),
      JsonText(Obj(<< <<"x", Num(1)>>, <<"cv", Obj(<< <<"x", Num(1)>> >>)>> >>)),
      JsonText(Obj(<<>>)), JsonText(Num(1)), JsonText(Null), JsonText(Arr(<<Num(1)>>)) }

\* persistFields are keys of T, so a scalar store has none
InitHydrate ==
    \E init \in InitialStates, r \in BOOLEAN, f \in {<<>>, <<"cv">>, <<"cv", "count">>},
       slot \in HydrateTexts, denied \in BOOLEAN :
        /\ init = ScalarInit => f = <<>>
        /\ InitContext(init, [reducer |-> r, persistKey |-> TRUE, persistFields |-> f],
                       slot, denied)

NextHydrate == \E update \in ShapeUpdates, quota \in BOOLEAN : set(update, quota)

SpecHydrate == InitHydrate /\ [][NextHydrate]_vars

SpecPair ==
    /\ \E source \in Values(MaxNest) :
          \E destination \in Partners(source) : InitPair(source, destination)
    /\ [][NextPair]_vars

\* A record history store whose history holds MAX_HISTORY - 1 entries: the
\* state createDataStore(RecordInit) is in after MAX_HISTORY - 2 rounds of
\* setStore(flip), animation frame, timer fire.
FilledEntry(i) == SetProp(RecordInit, "count", Num((i + 1) % 2))

InitFilled ==
    /\ variant = "history"
    /\ listeners = <<>>
    /\ initialState = RecordInit
    /\ store = FilledEntry(MAX_HISTORY - 1)
    /\ subscribers = <<>>
    /\ options = NoOptions
    /\ storage = Absent
    /\ history = [i \in 1..(MAX_HISTORY - 1) |-> FilledEntry(i)]
    /\ currentIndex = MAX_HISTORY - 2
    /\ timerPending = FALSE
    /\ timerLeft = 0
    /\ latestVersion = Undef
    /\ frames = 0
    /\ fires = 0
    /\ burst = "one"
    /\ rt = [phase |-> "snapshot", v0 |-> FilledEntry(MAX_HISTORY - 2),
             v1 |-> FilledEntry(MAX_HISTORY - 1)]
    /\ lastOp = Op("timer", TRUE, <<>>, "none")
    /\ consumer = NoConsumer

\* The history store from its construction or from the filled state, with no
\* callback registered: the animation-frame callbacks find the Set empty.
InitCap == InitFilled \/ \E init \in InitialStates : InitHistory(init)

SpecCap == InitCap /\ [][NextHistory]_vars

----------------------------------------------------------------------------
(* Structural equality, as the specification defines it: the same scalar,   *)
(* sequences of one length with equal elements in order, records with one   *)
(* key set and equal values per key (a record holds each of its keys once, *)
(* so records of one size have one key set when each key of the first is a  *)
(* key of the second).                                                      *)

RECURSIVE SameValue(_, _)
SameValue(a, b) ==
    \/ a = b
    \/ /\ a[1] = b[1]
       /\ a[1] \in {"array", "object"}
       /\ Len(a[2]) = Len(b[2])
       /\ IF a[1] = "array"
          THEN \A i \in 1..Len(a[2]) : SameValue(a[2][i], b[2][i])
          ELSE \A i \in 1..Len(a[2]) :
                  \E j \in 1..Len(b[2]) :
                      /\ b[2][j][1] = a[2][i][1]
                      /\ SameValue(a[2][i][2], b[2][j][2])

\* how many times callback occurs in calls
Count(callback, calls) == Cardinality({i \in 1..Len(calls) : calls[i] = callback})

Registered(callback) == \E i \in 1..Len(subscribers) : subscribers[i] = callback

----------------------------------------------------------------------------
\* what a refused set leaves alone
NoEffect ==
    /\ UNCHANGED <<store, storage, subscribers, history, currentIndex, timerPending,
                   timerLeft, latestVersion, frames>>
    /\ lastOp'.calls = <<>>
    /\ lastOp'.wrote = "none"

(* C1: in both variants, a set whose resolved next value is structurally    *)
(* equal to the current value changes nothing: the live value stays the     *)
(* object it was (same content, same key order), nothing is written to the  *)
(* durable slot, the debounce timer is neither started nor restarted, the   *)
(* history and the value a pending timer will push are untouched, no        *)
(* animation-frame notification is queued and no callback is invoked.       *)
(* (Only a step of set or setStore is labelled so in lastOp'.)              *)
EqualSetIsNoOp ==
    [][ /\ lastOp'.op = "set" =>
              \/ NoEffect
              \/ \A update \in ContextUpdatesFor(store) :
                    SameValue(store, NextStateOfSet(store, update, options))
                        => \A quota \in BOOLEAN : ~set(update, quota)
        /\ lastOp'.op = "setStore" =>
              \/ NoEffect
              \/ \A update \in UpdatesFor(store) :
                    SameValue(store, NextStateOfSetStore(store, update))
                        => ~setStore(update) ]_vars

\* a mutator that returned the same content in another key order was just
\* refused while a timer was due and a callback was registered
EqualSetIsNoOpWitness ==
    /\ variant = "history"
    /\ lastOp.op = "setStore" /\ ~lastOp.acted
    /\ store[1] = "object"
    /\ timerPending /\ timerLeft = 0
    /\ subscribers # <<>>

----------------------------------------------------------------------------
\* count went from 0 to 1 or from 1 to 0 and nothing else changed
FlipEffect ==
    /\ Get(store', "count") = Num(1 - Get(store, "count")[2])
    /\ Get(store', "cv") = Get(store, "cv")
    /\ KeySet(store') = KeySet(store)

(* C2: in both variants, a set whose resolved next value differs            *)
(* structurally from the current value makes it the live value and has      *)
(* every callback registered when the notification runs invoked exactly     *)
(* once for that change: at once in the context variant; in the history     *)
(* variant the change queues exactly one animation-frame callback, and the  *)
(* frame invokes each registered callback once per queued callback.  The    *)
(* mutator that flips count leaves count changed and the rest as it was.    *)

ChangedSetNotifiesOnce ==
    [][ /\ lastOp'.op = "set" =>
              /\ \A update \in ContextUpdatesFor(store) :
                    LET N == NextStateOfSet(store, update, options)
                    IN ~SameValue(store, N) =>
                          \/ /\ store' = N
                             /\ \A callback \in Callbacks :
                                   Count(callback, lastOp'.calls)
                                       = IF Registered(callback) THEN 1 ELSE 0
                          \/ \A quota \in BOOLEAN : ~set(update, quota)
              /\ store[1] = "object" =>
                    \/ FlipEffect
                    \/ \A quota \in BOOLEAN : ~set(Fn("flip"), quota)
        /\ lastOp'.op = "setStore" =>
              /\ \A update \in UpdatesFor(store) :
                    LET N == NextStateOfSetStore(store, update)
                    IN ~SameValue(store, N) =>
                          \/ /\ store' = N
                             /\ frames' = frames + 1
                             /\ lastOp'.calls = <<>>
                          \/ ~setStore(update)
              /\ store[1] = "object" => (FlipEffect \/ ~setStore(Fn("flip")))
        /\ lastOp'.op = "frame" =>
              (AnimationFrame
                  => \A callback \in Callbacks :
                        Count(callback, lastOp'.calls)
                            = IF Registered(callback) THEN frames ELSE 0) ]_vars

\* the context store accepted a change of count and called both callbacks
ChangedSetNotifiesOnceWitness ==
    /\ variant = "context"
    /\ lastOp.op = "set" /\ lastOp.acted
    /\ Len(lastOp.calls) = 2
    /\ Get(store, "count") = Num(1)

----------------------------------------------------------------------------
(* C3: once a change accepted by setStore on the live value V0, with no     *)
(* timer pending, has been snapshotted by its timer, the following undo()   *)
(* makes the live value structurally equal to V0, and the redo() after it   *)
(* makes the live value structurally equal to the value after the change.   *)

UndoRedoRoundTrip ==
    /\ rt.phase = "undone" => SameValue(store, rt.v0)
    /\ rt.phase = "redone" => SameValue(store, rt.v1)

----------------------------------------------------------------------------
\* the entries of the history after a fire, but the last, are entries it had
KeptEntries ==
    LET evicted == IF currentIndex + 2 > MAX_HISTORY THEN 1 ELSE 0
    IN \A i \in 1..(Len(history') - 1) : history'[i] = history[i + evicted]

(* C4: a setStore step records nothing in the history; an accepted one      *)
(* leaves one timer pending with the whole window of 200 ahead of it, so a  *)
(* burst of N changes is followed by one fire; that fire, with nothing but  *)
(* refused sets, frames and time since the last accepted change, adds       *)
(* exactly one entry after the entries kept up to the cursor, the entry is  *)
(* structurally equal to the last value of the burst, and no timer is left. *)
DebounceCoalesces ==
    [][ /\ lastOp'.op = "setStore" =>
              \A update \in UpdatesFor(store) :
                  setStore(update) =>
                      /\ UNCHANGED <<history, currentIndex>>
                      /\ ~SameValue(store, NextStateOfSetStore(store, update))
                             => (timerPending' /\ timerLeft' = DEBOUNCE)
        /\ (lastOp'.op = "timer" /\ burst # "none") =>
              (TimerFire =>
                  /\ Len(history') = IF currentIndex + 2 > MAX_HISTORY THEN MAX_HISTORY
                                     ELSE currentIndex + 2
                  /\ SameValue(history'[Len(history')], store)
                  /\ KeptEntries
                  /\ ~timerPending') ]_vars

\* the timer fired once for a burst of several accepted changes
DebounceCoalescesWitness ==
    /\ lastOp.op = "timer"
    /\ burst = "many"
    /\ Len(history) = 2
    /\ SameValue(history[2], store)
    /\ ~timerPending

----------------------------------------------------------------------------
(* C5: the history of the history store always has between 1 and            *)
(* MAX_HISTORY entries; a timer fire that would make it longer evicts       *)
(* exactly the entry of index 0, and the cursor, one less than the length   *)
(* after the append, designates the entry just appended.                    *)
BoundedHistory ==
    /\ [](variant = "history" => (1 <= Len(history) /\ Len(history) <= MAX_HISTORY))
    /\ [][ (lastOp'.op = "timer" /\ currentIndex + 2 > MAX_HISTORY) =>
              (TimerFire =>
                  /\ Len(history') = MAX_HISTORY
                  /\ \A i \in 1..(MAX_HISTORY - 1) : history'[i] = history[i + 1]
                  /\ currentIndex' = (currentIndex + 1) - 1
                  /\ history'[currentIndex' + 1] = latestVersion) ]_vars

\* a fire on a full history has evicted the initial entry
BoundedHistoryWitness ==
    /\ lastOp.op = "timer"
    /\ Len(history) = MAX_HISTORY
    /\ currentIndex = MAX_HISTORY - 1
    /\ history[1] = FilledEntry(2)
    /\ history[1] # RecordInit

----------------------------------------------------------------------------
(* C6: in every reachable state of the history store,                       *)
(* 0 <= currentIndex < Len(history).                                        *)
CursorInRange ==
    variant = "history" => (0 <= currentIndex /\ currentIndex < Len(history))

\* undo moved the cursor after a fire that evicted an entry
CursorInRangeWitness ==
    /\ lastOp.op = "undo" /\ lastOp.acted
    /\ Len(history) = MAX_HISTORY
    /\ history[1] = FilledEntry(2)
    /\ history[1] # RecordInit
    /\ currentIndex = MAX_HISTORY - 2

----------------------------------------------------------------------------
(* C7: resetStore() cancels the outstanding timer: whatever the step that   *)
(* follows a resetStore(), the history is still the single entry equal to   *)
(* the initial value, with the cursor at 0.                                 *)
ResetCancelsTimer ==
    [][ lastOp.op = "resetStore" =>
            /\ Len(history') = 1
            /\ SameValue(history'[1], initialState)
            /\ currentIndex' = 0 ]_vars

----------------------------------------------------------------------------
(* C8: from every reachable state of the history store, resetStore() makes  *)
(* the live value structurally equal to the initial value, makes the        *)
(* history the single entry equal to that value, sets the cursor to 0 and   *)
(* queues one notification of the subscribers.                              *)
ResetRestoresInitial ==
    [][ lastOp'.op = "resetStore" =>
            (resetStore =>
                /\ SameValue(store', initialState)
                /\ Len(history') = 1
                /\ SameValue(history'[1], initialState)
                /\ currentIndex' = 0
                /\ frames' = frames + 1) ]_vars

\* resetStore was called after two fires, the live value away from the initial one
ResetRestoresInitialWitness ==
    /\ lastOp.op = "resetStore"
    /\ fires >= 2
    /\ store = RecordInit
    /\ history = <<RecordInit>>
    /\ currentIndex = 0
    /\ frames = 1

----------------------------------------------------------------------------
\* what a refused undo, redo or rollbackTo leaves alone
Refused ==
    /\ UNCHANGED <<store, history, currentIndex, frames, subscribers>>
    /\ lastOp'.calls = <<>>

(* C9: undo() at cursor 0, redo() at the last index and rollbackTo(i) with  *)
(* i < 0 or i >= Len(history) are defined there, leave the live value, the  *)
(* history and the cursor unchanged and notify no subscriber.               *)
BoundaryNoOps ==
    /\ [](variant = "history" =>
              /\ currentIndex = 0 => ENABLED undo
              /\ currentIndex = Len(history) - 1 => ENABLED redo
              /\ \A i \in {-2, -1, Len(history), Len(history) + 1} : ENABLED rollbackTo(i))
    /\ [][ /\ (lastOp'.op = "undo" /\ currentIndex = 0) => (undo => Refused)
           /\ (lastOp'.op = "redo" /\ currentIndex = Len(history) - 1) => (redo => Refused)
           /\ lastOp'.op = "rollbackTo" =>
                 \A i \in {-2, -1, Len(history), Len(history) + 1} :
                     rollbackTo(i) => Refused ]_vars

\* redo was refused at the last of several entries, no frame waiting
BoundaryNoOpsWitness ==
    /\ lastOp.op = "redo" /\ ~lastOp.acted
    /\ Len(history) = 3
    /\ currentIndex = 2
    /\ frames = 0

----------------------------------------------------------------------------
\* what a successful undo, redo or rollbackTo does besides moving the cursor
Moved ==
    /\ history' = history
    /\ SameValue(store', history'[currentIndex' + 1])
    /\ frames' = frames + 1

(* C10: undo() with cursor > 0 moves the cursor by -1, redo() with          *)
(* cursor < last index by +1 and rollbackTo(i) with 0 <= i < Len(history)   *)
(* to i; each leaves the history as it is, makes the live value             *)
(* structurally equal to the entry at the new cursor and queues one         *)
(* notification of the subscribers.                                         *)
SuccessfulMoves ==
    [][ /\ (lastOp'.op = "undo" /\ currentIndex > 0) =>
              (undo => (currentIndex' = currentIndex - 1 /\ Moved))
        /\ (lastOp'.op = "redo" /\ currentIndex < Len(history) - 1) =>
              (redo => (currentIndex' = currentIndex + 1 /\ Moved))
        /\ lastOp'.op = "rollbackTo" =>
              \A i \in 0..(Len(history) - 1) :
                  rollbackTo(i) => (currentIndex' = i /\ Moved) ]_vars

\* rollbackTo(0) brought back the first of three entries, which differs from
\* the entry the cursor was on
SuccessfulMovesWitness ==
    /\ lastOp.op = "rollbackTo" /\ lastOp.acted
    /\ Len(history) = 3
    /\ currentIndex = 0
    /\ SameValue(store, history[1])
    /\ ~SameValue(history[1], history[2])

----------------------------------------------------------------------------
\* the update functions the callers pass to a record store
Mutators == {"flip", "keep", "swap", "replace"}

\* what the function returned when it returned something, else the draft as
\* the function left it
Candidate(name, current) ==
    LET call == CallUpdate(name, current)
    IN IF call.ret # Undef THEN call.ret ELSE call.arg

\* the candidate is refused when it equals the live value, else it is the
\* new live value
CandidateDecides(candidate) ==
    IF SameValue(store, candidate) THEN store' = store ELSE SameValue(store', candidate)

(* C11: in both variants, a set of a record store that is given a function  *)
(* calls it on a draft of the live value and takes as candidate next value  *)
(* what the function returned, when it returned something other than        *)
(* undefined, and the draft as the function left it otherwise.              *)
MutatorDualConvention ==
    [][ /\ (lastOp'.op = "set" /\ store[1] = "object") =>
              \A name \in Mutators, quota \in BOOLEAN :
                  set(Fn(name), quota) => CandidateDecides(Candidate(name, store))
        /\ (lastOp'.op = "setStore" /\ store[1] = "object") =>
              \A name \in Mutators :
                  setStore(Fn(name)) => CandidateDecides(Candidate(name, store)) ]_vars

----------------------------------------------------------------------------
(* C12: a context store constructed over a slot that is absent, that cannot *)
(* be read (getItem throws) or whose text cannot be parsed starts with a    *)
(* live value that is exactly its initial value.                            *)
HydrationFallback ==
    (/\ variant = "context"
     /\ lastOp.op = "create"
     /\ lastOp.wrote = "failed" \/ storage \in {Absent, Garbage})
        => store = initialState

\* a store with a persistKey was constructed over an unparseable text
HydrationFallbackWitness ==
    /\ variant = "context"
    /\ lastOp.op = "create"
    /\ options.persistKey
    /\ lastOp.wrote = "ok"
    /\ storage = Garbage
    /\ store = RecordInit

----------------------------------------------------------------------------
\* the slot holds the text of an object whose keys are the configured fields
\* the live value has, each with the live value's value for it
SlotHoldsFields ==
    /\ storage \notin {Absent, Garbage}
    /\ storage[2][1] = "object"
    /\ KeySet(storage[2]) =
          {options.persistFields[i] : i \in 1..Len(options.persistFields)} \cap KeySet(store)
    /\ \A key \in KeySet(storage[2]) : SameValue(Get(storage[2], key), Get(store, key))

\* the last operation was an accepted set of a record store that persists a
\* field subset
AcceptedFieldSubsetSet ==
    /\ variant = "context"
    /\ lastOp.op = "set"
    /\ lastOp.acted
    /\ options.persistKey
    /\ Len(options.persistFields) > 0
    /\ store[1] = "object"

(* C13: with a persistKey and non-empty persistFields, after every accepted  *)
(* change of a record state whose write localStorage accepts, the slot holds *)
(* exactly the configured fields that exist in the new state, each with its  *)
(* current value, and no other key of the state.                             *)
FieldSubsetPersisted ==
    (AcceptedFieldSubsetSet /\ lastOp.wrote = "ok") => SlotHoldsFields

\* an accepted change of count left only cv in the slot
FieldSubsetPersistedWitness ==
    /\ AcceptedFieldSubsetSet
    /\ lastOp.wrote = "ok"
    /\ Get(store, "count") = Num(1)
    /\ storage = JsonText(Obj(<< <<"cv", Get(store, "cv")>> >>))

\* C13 as stated, for every accepted change, the rejected writes included
FieldSubsetPersistedAlways ==
    AcceptedFieldSubsetSet => SlotHoldsFields

----------------------------------------------------------------------------
(* C14: a set of a context store whose write localStorage rejects returns    *)
(* all the same: when its next value differs from the live value, the live   *)
(* value is replaced by it, every subscriber is called once, the slot keeps  *)
(* what it held; and every accepted set of a store with a persistKey,        *)
(* those after a rejected write included, makes its own setItem call.        *)
PersistenceBestEffort ==
    [][ lastOp'.op = "set" =>
         /\ \A update \in ContextUpdatesFor(store) :
               LET N == NextStateOfSet(store, update, options)
               IN (set(update, TRUE) /\ ~SameValue(store, N)) =>
                     /\ store' = N
                     /\ lastOp'.acted
                     /\ \A callback \in Callbacks :
                           Count(callback, lastOp'.calls) =
                               IF Registered(callback) THEN 1 ELSE 0
                     /\ options.persistKey =>
                           (lastOp'.wrote = "failed" /\ storage' = storage)
         /\ (lastOp'.acted /\ options.persistKey) => lastOp'.wrote # "none" ]_vars

\* a rejected write: the live value was replaced and both subscribers called
PersistenceBestEffortWitness ==
    /\ variant = "context"
    /\ lastOp.op = "set"
    /\ lastOp.wrote = "failed"
    /\ store # initialState
    /\ Len(lastOp.calls) = 2
    /\ storage # PersistedText(store, options)

----------------------------------------------------------------------------
\* the part of a value that the store persists: the configured fields of a
\* record when there are some, the whole value otherwise
PersistedPortion(v) ==
    IF Len(options.persistFields) > 0 /\ v[1] = "object"
    THEN PickFields(Obj(<<>>), options.persistFields, v, 1)
    ELSE v

(* C15: after an accepted change whose write localStorage took, a new store *)
(* constructed with the same initial value and options over the slot starts *)
(* with a live value whose persisted portion is structurally equal to the   *)
(* persisted portion of the value that was written.                         *)
PersistenceRoundTrip ==
    (variant = "context" /\ lastOp.op = "set" /\ lastOp.wrote = "ok") =>
        SameValue(PersistedPortion(loadState(initialState, options, storage, FALSE)),
                  PersistedPortion(store))

----------------------------------------------------------------------------
(* C16: in both variants the registrations are a set: a callback is held at *)
(* most once however often it is registered, registering a registered       *)
(* callback changes nothing, so a change invokes it at most once (at most   *)
(* once per queued animation frame in the history variant); after a call of *)
(* its unregister function the callback is not registered, and a further    *)
(* call changes nothing.                                                    *)
SubscriberSetSemantics ==
    /\ [](\A callback \in Callbacks : Count(callback, subscribers) <= 1)
    /\ [][ /\ lastOp'.op = "subscribeAgain" =>
                 \A callback \in Callbacks :
                     subscribeAgain(callback) => subscribers' = subscribers
           /\ lastOp'.op = "unsubscribe" =>
                 \A callback \in Callbacks :
                     unsubscribe(callback) => Count(callback, subscribers') = 0
           /\ lastOp'.op = "unsubscribeAgain" =>
                 \A callback \in Callbacks :
                     unsubscribeAgain(callback) => subscribers' = subscribers
           /\ lastOp'.op = "set" =>
                 \A callback \in Callbacks : Count(callback, lastOp'.calls) <= 1
           /\ lastOp'.op = "frame" =>
                 (AnimationFrame =>
                     \A callback \in Callbacks : Count(callback, lastOp'.calls) <= frames)
         ]_vars

\* cb1 was registered a second time while cb2 was registered too
SubscriberSetSemanticsWitness ==
    /\ lastOp.op = "subscribeAgain"
    /\ Len(subscribers) = 2
    /\ Count("cb1", subscribers) = 1
    /\ Count("cb2", subscribers) = 1

----------------------------------------------------------------------------
(* C17: when the selector's result on the live value is structurally equal  *)
(* to the result getSnapshot returned before, getSnapshot returns that      *)
(* earlier object itself (lastSelectedRef is not assigned); it returns the  *)
(* new selection only when that differs structurally from the earlier one.  *)
SnapshotReferenceStable ==
    [][ lastOp'.op = "getSnapshot" =>
          (getSnapshot =>
              LET selected == Select(consumer.selector, store)
              IN /\ SameValue(consumer.last, selected) =>
                       /\ ~lastOp'.acted
                       /\ consumer' = consumer
                       /\ lastOp'.ret = consumer.last
                 /\ lastOp'.acted =>
                       /\ ~SameValue(consumer.last, selected)
                       /\ consumer'.last = selected
                       /\ lastOp'.ret = selected) ]_vars

\* a component that selects cv got its earlier object back although count
\* has changed since the store was constructed
SnapshotReferenceStableWitness ==
    /\ lastOp.op = "getSnapshot"
    /\ ~lastOp.acted
    /\ consumer.selector = "cv"
    /\ lastOp.ret = consumer.last
    /\ Get(store, "count") # Get(initialState, "count")

----------------------------------------------------------------------------
(* C18: getServerSnapshot returns the selector applied to the initialState  *)
(* argument of the factory, whatever was hydrated from the slot and         *)
(* whatever operations ran before, and it changes nothing of the store or   *)
(* of the component; the initialState itself never changes.                 *)
ServerSnapshotOfInitial ==
    [][ /\ initialState' = initialState
        /\ lastOp'.op = "getServerSnapshot" =>
              (getServerSnapshot =>
                  /\ lastOp'.ret = Select(consumer.selector, initialState)
                  /\ UNCHANGED <<store, storage, subscribers, history, currentIndex,
                                 timerPending, timerLeft, latestVersion, frames, consumer>>)
      ]_vars

\* getServerSnapshot returned the initial selection while the live value
\* selects something else
ServerSnapshotOfInitialWitness ==
    /\ lastOp.op = "getServerSnapshot"
    /\ lastOp.ret = Select(consumer.selector, initialState)
    /\ ~SameValue(lastOp.ret, Select(consumer.selector, store))

----------------------------------------------------------------------------
(* C19: useContextStore and useStoreDispatch throw Error("Store not found") *)
(* when they are called outside a ContextStoreProvider, and then change     *)
(* nothing; called inside one they return the selection and the set         *)
(* function, never that error.                                              *)
StoreNotFoundOutsideProvider ==
    [][ /\ lastOp'.op = "useContextStore" =>
              \A selector \in Selectors, inProvider \in BOOLEAN :
                  useContextStore(selector, inProvider) =>
                      IF inProvider
                      THEN lastOp'.ret = Select(selector, store)
                      ELSE /\ lastOp'.ret = Thrown("Store not found")
                           /\ UNCHANGED <<store, storage, subscribers, consumer>>
        /\ lastOp'.op = "useStoreDispatch" =>
              \A inProvider \in BOOLEAN :
                  useStoreDispatch(inProvider) =>
                      lastOp'.ret = IF inProvider THEN Fn("set")
                                    ELSE Thrown("Store not found") ]_vars

\* useStoreDispatch was called outside a provider
StoreNotFoundOutsideProviderWitness ==
    /\ lastOp.op = "useStoreDispatch"
    /\ lastOp.ret = Thrown("Store not found")

----------------------------------------------------------------------------
\* the clone deepClone returns holds an array or object of the source
\* itself: deepClonePolyfill returns a new array (source.map, line 7) or a
\* new object (clonedObject, line 14) for each one it meets, as
\* structuredClone does, and returns only primitives and functions as they are
RECURSIVE SharesObject(_)
SharesObject(source) ==
    CASE source[1] = "array" -> \E i \in 1..Len(source[2]) : SharesObject(source[2][i])
      [] source[1] = "object" -> \E i \in 1..Len(source[2]) : SharesObject(source[2][i][2])
      [] OTHER -> FALSE

(* C20: for every value source built from records, sequences and scalars,   *)
(* deepEqual(source, deepClone(source)) is true, the clone has the content  *)
(* of the source with its functions in place, and holds none of the arrays  *)
(* and objects of the source.                                               *)
DeepCloneIndependent ==
    /\ (variant = "util" /\ lastOp.op = "deepEqual") => lastOp.ret = Bool(TRUE)
    /\ (variant = "util" /\ lastOp.op = "deepClone") =>
          /\ SameValue(store, lastOp.ret)
          /\ ~SharesObject(store)

----------------------------------------------------------------------------
(* C21: deepEqual(source, destination) is true exactly when the two values  *)
(* are structurally identical: the same scalar, two sequences of the same   *)
(* length with pairwise equal elements, or two records with the same keys   *)
(* and pairwise equal values whatever the key order; a sequence and a       *)
(* record are never equal.                                                  *)
DeepEqualIsStructural ==
    (variant = "util" /\ lastOp.op = "deepEqual") =>
        lastOp.ret = Bool(SameValue(initialState, store))

----------------------------------------------------------------------------
\* result is what the claim says of deepMerge(a, b): it has every key of a;
\* a key of a that b lacks or holds as undefined keeps a's value; a key whose
\* values are records on both sides holds their merge; any other key of both
\* holds b's value
RECURSIVE MergedAs(_, _, _)
MergedAs(result, a, b) ==
    /\ result[1] = "object"
    /\ KeySet(a) \subseteq KeySet(result)
    /\ \A key \in KeySet(a) :
          IF ~HasKey(b, key) \/ Get(b, key) = Undef
          THEN SameValue(Get(result, key), Get(a, key))
          ELSE IF Get(a, key)[1] = "object" /\ Get(b, key)[1] = "object"
          THEN MergedAs(Get(result, key), Get(a, key), Get(b, key))
          ELSE SameValue(Get(result, key), Get(b, key))

(* C22: for records a and b, deepMerge(a, b) keeps every key of a that b    *)
(* lacks with a's value, holds b's value for a key of both whose values are *)
(* not both records, merges recursively where both are records, leaves a's  *)
(* value where b holds undefined, and leaves a and b as they were.          *)
DeepMergeKeepsAndOverrides ==
    [][ callDeepMergeOfPair =>
          /\ MergedAs(lastOp'.ret, initialState, store)
          /\ initialState' = initialState
          /\ store' = store ]_vars

\* a nested record of a was merged with the one of b: a.a.a overridden, a.a.b kept
DeepMergeKeepsAndOverridesWitness ==
    /\ variant = "util"
    /\ lastOp.op = "deepMerge"
    /\ initialState = Obj(<< <<"a", Obj(<< <<"a", Num(0)>>, <<"b", Num(1)>> >>)>> >>)
    /\ store = Obj(<< <<"a", Obj(<< <<"a", Num(1)>> >>)>> >>)
    /\ lastOp.ret = Obj(<< <<"a", Obj(<< <<"a", Num(1)>>, <<"b", Num(1)>> >>)>> >>)

----------------------------------------------------------------------------
(* C23: the entry the debounce timer appends when it fires is a deep        *)
(* snapshot of the live value at that instant, whatever setStore, undo,     *)
(* redo and rollbackTo calls came between the last accepted change and the  *)
(* fire.                                                                    *)
TimerSnapshotsLiveValue ==
    [][ TimerFire =>
          /\ Len(history') > 0
          /\ SameValue(history'[Len(history')], store)
          /\ store' = store ]_vars

----------------------------------------------------------------------------
(* C24: history is linear.  Entries lie above the cursor only after undo or *)
(* rollbackTo; once a setStore is accepted in such a state they are         *)
(* destroyed, so a redo that follows the write (burst tells that no undo,   *)
(* redo, rollbackTo or resetStore came after it) moves onto none of them    *)
(* and leaves the live value alone, before the debounce timer fires as      *)
(* after.                                                                   *)
WriteDestroysUndoneBranch ==
    [][ (burst # "none" /\ redo) =>
          /\ currentIndex' = currentIndex
          /\ store' = store ]_vars

----------------------------------------------------------------------------
\* what the claim says an update that is no function resolves to: merged
\* into the record when it is a record itself, the new value otherwise
ResolvedByShape(current, update) ==
    IF update[1] = "object" /\ current[1] = "object"
    THEN deepMerge(current, update)
    ELSE update

\* set hands the update to the reducer, lines 91-99
ReducerTakes(update) == options.reducer /\ IsObjectLike(update) /\ HasKey(update, "type")

(* C25: an update that is no function, and that the context store does not *)
(* hand to a configured reducer because it carries a type key, resolves by  *)
(* shape: a record update on a record value to deepMerge(current, update),  *)
(* every other update (on a scalar or sequence value, or a sequence, scalar *)
(* or null update on a record) to the update itself.                        *)
UpdateResolvedByShape ==
    [][ /\ lastOp'.op = "set" =>
              \A update \in ShapeUpdates :
                  (set(update, FALSE) /\ ~ReducerTakes(update)) =>
                      CandidateDecides(ResolvedByShape(store, update))
        /\ lastOp'.op = "setStore" =>
              \A update \in ShapeUpdates :
                  setStore(update) => CandidateDecides(ResolvedByShape(store, update)) ]_vars

\* a sequence replaced the record of a history store
UpdateResolvedByShapeWitness ==
    /\ variant = "history"
    /\ lastOp.op = "setStore"
    /\ lastOp.acted
    /\ initialState = RecordInit
    /\ store = Arr(<<Num(1)>>)
    /\ history = <<RecordInit>>

\* C25 as stated, for every update that is no function
UpdateAlwaysResolvedByShape ==
    [][ lastOp'.op = "set" =>
          \A update \in ShapeUpdates :
              set(update, FALSE) => CandidateDecides(ResolvedByShape(store, update)) ]_vars

----------------------------------------------------------------------------
(* C26: with a reducer configured, set of an object carrying a type key     *)
(* decides on the draft, a clone of the current value after one call of     *)
(* reducer(draft, action): what the reducer returns is not used, and the    *)
(* current value is compared with the draft as it was before the call, so   *)
(* the change is accepted exactly when the reducer changed the draft.       *)
ReducerMutatesDraft ==
    [][ lastOp'.op = "set" =>
          \A update \in ShapeUpdates :
              (set(update, FALSE) /\ ReducerTakes(update)) =>
                  LET draft == CallReducer(deepClone(store), update)
                  IN /\ CandidateDecides(draft)
                     /\ lastOp'.acted <=> ~SameValue(store, draft)
                     /\ ~lastOp'.acted => store' = store ]_vars

\* the reducer flipped the count of the record back to the initial 0: no
\* update of ShapeUpdates that is merged or taken as the value gives that
ReducerMutatesDraftWitness ==
    /\ variant = "context"
    /\ options.reducer
    /\ lastOp.op = "set"
    /\ lastOp.acted
    /\ initialState = RecordInit
    /\ store = RecordInit

----------------------------------------------------------------------------
\* the update of ShapeUpdates shaped like an Action
ActionUpdate == Obj(<< <<"type", Str("flip")>>, <<"payload", Num(1)>> >>)

(* C27: without a reducer, set of an update shaped like an Action treats it *)
(* as data: a record value keeps its own keys and gains type and payload    *)
(* with the update's values, a scalar or sequence value is replaced by the  *)
(* update; the call returns normally.                                       *)
ActionWithoutReducerIsData ==
    [][ (lastOp'.op = "set" /\ ~options.reducer /\ set(ActionUpdate, FALSE)) =>
            /\ lastOp'.ret[1] # "error"
            /\ IF store[1] = "object"
               THEN /\ store'[1] = "object"
                    /\ Get(store', "type") = Str("flip")
                    /\ Get(store', "payload") = Num(1)
                    /\ \A i \in 1..Len(store[2]) :
                          store[2][i][1] \notin {"type", "payload"} =>
                              /\ HasKey(store', store[2][i][1])
                              /\ SameValue(Get(store', store[2][i][1]), store[2][i][2])
                    /\ \A i \in 1..Len(store'[2]) :
                          \/ store'[2][i][1] \in {"type", "payload"}
                          \/ HasKey(store, store'[2][i][1])
               ELSE SameValue(store', ActionUpdate) ]_vars

\* the record of a store without reducer gained the keys of the Action
ActionWithoutReducerIsDataWitness ==
    /\ variant = "context"
    /\ ~options.reducer
    /\ lastOp.op = "set"
    /\ lastOp.acted
    /\ store = Obj(<< <<"count", Num(0)>>, <<"cv", Obj(<< <<"id", Bool(FALSE)>> >>)>>,
                      <<"type", Str("flip")>>, <<"payload", Num(1)>> >>)

----------------------------------------------------------------------------
\* the place of a registered callback in the iteration of the Set
PlaceOf(callback, list) == CHOOSE i \in 1..Len(list) : list[i] = callback

\* callback c is iterated before callback d
Before(c, d, list) ==
    /\ Count(c, list) = 1
    /\ Count(d, list) = 1
    /\ PlaceOf(c, list) < PlaceOf(d, list)

\* the calls are rounds over the registered callbacks, each in their order
InRounds(calls, list) ==
    \A i \in 1..Len(calls) :
        /\ Len(list) > 0
        /\ calls[i] = list[((i - 1) % Len(list)) + 1]

(* C28: the iteration order of the registered callbacks is their order of   *)
(* registration: a step that registers a callback which was not registered  *)
(* puts it last, no step exchanges two callbacks that stay registered, and  *)
(* the notification of an accepted change (set at once, the history store   *)
(* in its animation frame) calls the registered callbacks in that order.    *)
NotifiedInRegistrationOrder ==
    [][ /\ \A c \in Callbacks :
              (Count(c, subscribers) = 0 /\ Count(c, subscribers') = 1) =>
                  subscribers'[Len(subscribers')] = c
        /\ \A c, d \in Callbacks :
              (Before(c, d, subscribers) /\ Count(c, subscribers') = 1
                                         /\ Count(d, subscribers') = 1) =>
                  Before(c, d, subscribers')
        /\ (lastOp'.op = "set" /\ lastOp'.acted) => lastOp'.calls = subscribers
        /\ lastOp'.op = "frame" =>
              (AnimationFrame =>
                  /\ InRounds(lastOp'.calls, subscribers)
                  /\ Len(lastOp'.calls) = frames * Len(subscribers)) ]_vars

\* cb2 was called before cb1 for an accepted set
NotifiedInRegistrationOrderWitness ==
    /\ variant = "context"
    /\ lastOp.op = "set"
    /\ lastOp.acted
    /\ lastOp.calls = <<"cb2", "cb1">>
    /\ subscribers = <<"cb2", "cb1">>

----------------------------------------------------------------------------
\* the configured fields
FieldSet == {options.persistFields[i] : i \in 1..Len(options.persistFields)}

\* key k of the hydrated value is the stored one
TakesStored(k, parsed) == HasKey(store, k) /\ Get(store, k) = Get(parsed, k)

\* key k of the hydrated value is as in initialState, there or not
KeepsInitial(k) ==
    /\ HasKey(store, k) <=> HasKey(initialState, k)
    /\ Get(store, k) = Get(initialState, k)

(* C29: the value a store hydrates from a readable slot is, key by key:     *)
(* with persistFields, the stored value for each configured field that the  *)
(* stored content has, and initialState's for every other key, keys of the  *)
(* stored content that are no configured fields left out; without           *)
(* persistFields, the stored value for every top-level key of the stored    *)
(* content, whole and not merged, and initialState's for every other key.   *)
HydrationOverlay ==
    (/\ variant = "context"
     /\ lastOp.op = "create"
     /\ options.persistKey
     /\ lastOp.wrote = "ok"
     /\ storage[1] = "json")
        => LET parsed == storage[2]
               keys == KeySet(initialState) \cup KeySet(parsed) \cup KeySet(store)
           IN \A k \in keys :
                 IF Len(options.persistFields) > 0
                 THEN IF k \in FieldSet /\ IsObjectLike(parsed) /\ HasKey(parsed, k)
                      THEN TakesStored(k, parsed)
                      ELSE KeepsInitial(k)
                 ELSE IF HasKey(parsed, k)
                      THEN TakesStored(k, parsed)
                      ELSE KeepsInitial(k)

\* with the field cv configured, a slot that holds count too gave cv alone
HydrationOverlayWitness ==
    /\ variant = "context"
    /\ lastOp.op = "create"
    /\ lastOp.wrote = "ok"
    /\ options.persistFields = <<"cv">>
    /\ initialState = RecordInit
    /\ storage = JsonText(Obj(<< <<"count", Num(1)>>, <<"cv", Obj(<< <<"id", Bool(TRUE)>> >>)>> >>))
    /\ store = Obj(<< <<"count", Num(0)>>, <<"cv", Obj(<< <<"id", Bool(TRUE)>> >>)>> >>)

----------------------------------------------------------------------------
(* C30: no entry of history can be reached from the live value, from        *)
(* initialState or from anything the calling code holds (an object it got   *)
(* from getStore or getHistory, a draft its update function was handed, an  *)
(* update object it passed), so a write into any of these changes no entry; *)
(* and the entries themselves change place or go only when the timer's      *)
(* callback truncates, appends and evicts, or on resetStore.                *)
HistoryEntriesIndependent ==
    /\ [](variant = "refs" =>
            \A i \in 1..Len(history) :
                history[i] \cap (Held \cup store \cup initialState) = {})
    /\ [][ /\ lastOp'.op = "mutate" => (~lastOp'.acted /\ history' = history)
           /\ history' # history => lastOp'.op \in {"timer", "resetStore"}
           /\ (lastOp'.op = "timer" /\ history' # history) =>
                 \A i \in 1..Len(history) :
                     \/ i <= Len(history') /\ history'[i] = history[i]
                     \/ i > currentIndex + 1
                     \/ /\ currentIndex + 2 > MAX_HISTORY
                        /\ i = 1 \/ history'[i - 1] = history[i] ]_vars

\* the calling code wrote into an object the live value shares with an update
\* it passed, while history held two entries
HistoryEntriesIndependentWitness ==
    /\ variant = "refs"
    /\ lastOp.op = "mutate"
    /\ lastOp.ret[2] \in store
    /\ Len(history) = 2
    /\ Cardinality(store) = 2

----------------------------------------------------------------------------
(* C31: history[0] is structurally equal to the initial value when the      *)
(* store is constructed and after every resetStore, and no operation        *)
(* changes history[0] but resetStore and the timer's callback when its      *)
(* append makes the history longer than MAX_HISTORY: the eviction drops the *)
(* oldest entry and the entry that was at index 1 becomes history[0].       *)
FirstEntryInitialUntilEvicted ==
    /\ []((variant = "history" /\ lastOp.op \in {"create", "resetStore"}) =>
            SameValue(history[1], initialState))
    /\ [][ (variant = "history" /\ history'[1] # history[1]) =>
              \/ lastOp'.op = "resetStore"
              \/ /\ lastOp'.op = "timer"
                 /\ currentIndex + 2 > MAX_HISTORY
                 /\ history'[1] = history[2] ]_vars

\* the timer's callback filled the history to MAX_HISTORY entries and the
\* first one is still the initial value
FirstEntryInitialUntilEvictedWitness ==
    /\ variant = "history"
    /\ lastOp.op = "timer"
    /\ Len(history) = MAX_HISTORY
    /\ currentIndex = MAX_HISTORY - 1
    /\ SameValue(history[1], initialState)

\* C31 as stated: history[0] is the initial value in every reachable state
FirstEntryAlwaysInitial ==
    variant = "history" => SameValue(history[1], initialState)

----------------------------------------------------------------------------
\* the operation the claim binds to an event described by the lower-case key
\* and the two flags
Bound(key, ctrlOrMeta, shift) ==
    IF ctrlOrMeta /\ key = "z" /\ ~shift THEN <<"undo">>
    ELSE IF ctrlOrMeta /\ (key = "y" \/ (key = "z" /\ shift)) THEN <<"redo">>
    ELSE <<>>

(* C32: on a key-down event every attached handler invokes undo() exactly   *)
(* when Ctrl or Meta is held, the key is z and Shift is not held, redo()    *)
(* exactly when Ctrl or Meta is held and the key is y, or z with Shift,     *)
(* never both; the default action is suppressed exactly when an attached    *)
(* handler invoked one of them; and a handler whose detachment function was *)
(* called is attached no more and invokes nothing: with no handler attached *)
(* a key event leaves the store as it is.                                   *)
ShortcutsBound ==
    /\ [](lastOp.op = "keydown" =>
            LET event == lastOp.ret
                bound == Bound(ToLowerCase(Get(event, "key")[2]),
                               Get(event, "ctrlKey")[2] \/ Get(event, "metaKey")[2],
                               Get(event, "shiftKey")[2])
            IN /\ lastOp.calls = Repeat(bound, Len(Attached))
               /\ Get(event, "defaultPrevented") = Bool(bound # <<>> /\ Len(Attached) > 0))
    /\ [][ /\ (lastOp'.op = "keydown" /\ Len(Attached) = 0) =>
                 UNCHANGED <<store, currentIndex, history, frames>>
           /\ lastOp'.op = "detach" =>
                 \A handler \in 1..MaxHandlers :
                     \/ /\ handler <= Len(listeners') => ~listeners'[handler]
                        /\ \A other \in 1..Len(listeners) :
                              other # handler => listeners'[other] = listeners[other]
                     \/ ~detach(handler) ]_vars

\* Ctrl+Shift+Z moved the cursor forward through the one handler that is
\* still attached, after the first one was detached
ShortcutsBoundWitness ==
    /\ variant = "history"
    /\ lastOp.op = "keydown"
    /\ lastOp.calls = <<"redo">>
    /\ lastOp.ret = KeyboardEvent("Z", TRUE, FALSE, TRUE, TRUE)
    /\ listeners = <<FALSE, TRUE>>
    /\ currentIndex = 2
    /\ Len(history) = 3

----------------------------------------------------------------------------
(* C33: from one live value, the set of a context store without reducer and *)
(* persistence and the setStore of a history store resolve every update, a  *)
(* replacement value, a partial object or a mutator function, to            *)
(* structurally equal candidates and accept or reject it alike; the two     *)
(* stores, given the same calls, then hold equal live values after each.    *)
VariantsAgree ==
    \A update \in UpdatesFor(store) :
        LET ofSet == NextStateOfSet(store, update, NoOptions)
            ofSetStore == NextStateOfSetStore(store, update)
        IN /\ deepEqual(store, ofSet) = deepEqual(store, ofSetStore)
           /\ SameValue(ofSet, ofSetStore)

----------------------------------------------------------------------------
(* C34: whenever no debounce timer of the history store is pending, the     *)
(* live value is structurally equal to the history entry under the cursor.  *)
IdleConsistency ==
    (variant = "history" /\ ~timerPending) =>
        SameValue(store, history[currentIndex + 1])

----------------------------------------------------------------------------
(* C35: after setStore accepted a replacement value or a partial object,    *)
(* the live value reaches no record or sequence of the update, so that a    *)
(* later write by the caller into the update does not show in the store.    *)
LiveValueNotAliased ==
    [][ (lastOp'.op = "setStore" /\ lastOp'.acted) =>
          \A kind \in {"merge", "replace"}, given \in Givens :
              setStoreRefs(kind, given, TRUE) => store' \cap given = {} ]_vars

----------------------------------------------------------------------------
(* C36: a call of the unregister function leaves the callback unregistered, *)
(* only subscribe registers it again, and no step invokes a callback that   *)
(* is not registered when the step is taken: neither the set of the context *)
(* store nor the animation frame of the history store, which runs over the  *)
(* callbacks registered when the frame runs, not when the change was made.  *)
NoCallAfterUnsubscribe ==
    [][ \A callback \in Callbacks :
          /\ lastOp'.op \in {"unsubscribe", "unsubscribeAgain"} =>
                (Count(callback, subscribers') = 0
                    \/ (~unsubscribe(callback) /\ ~unsubscribeAgain(callback)))
          /\ (Count(callback, subscribers) = 0 /\ Count(callback, subscribers') > 0) =>
                lastOp'.op = "subscribe"
          /\ Count(callback, subscribers) = 0 => Count(callback, lastOp'.calls) = 0 ]_vars

\* cb1 was unregistered while the animation frame of an accepted change of
\* the history store was waiting, cb2 staying registered
NoCallAfterUnsubscribeWitness ==
    /\ variant = "history"
    /\ lastOp.op = "unsubscribe"
    /\ frames > 0
    /\ timerPending
    /\ subscribers = <<"cb2">>

----------------------------------------------------------------------------
(* C37: no operation of either store writes into initialState: the objects  *)
(* a set or setStore writes into, the draft it hands to the update function *)
(* or the reducer and the copy deepMerge fills, are none of the objects     *)
(* reached from initialState, though the live value of the context store is *)
(* initialState itself until the first accepted change.                     *)
InitialValueNotWritten ==
    (variant \in RefViews /\ lastOp.op \in {"set", "setStore"}) =>
        lastOp.ret \cap initialState = {}

\* the context store handed a draft to an update function while its live
\* value was initialState itself, and took the draft as the new live value
InitialValueNotWrittenWitness ==
    /\ variant = "refsContext"
    /\ lastOp.op = "set"
    /\ lastOp.acted
    /\ lastOp.ret # {}
    /\ lastOp.ret = store
    /\ initialState = {1}
    /\ 1 \in Held

----------------------------------------------------------------------------
\* a step of setStore that accepts a change, or of resetStore (a step of
\* Tick lowers timerLeft and leaves lastOp as it is)
AcceptOrReset ==
    /\ timerLeft' >= timerLeft
    /\ \/ lastOp'.op = "setStore" /\ lastOp'.acted /\ store' # store
       \/ lastOp'.op = "resetStore"

(* C38: under fair timers, once changes stop being accepted and resetStore  *)
(* is no longer called, the store becomes Idle for good; an accepted change *)
(* leaves a timer pending with a copy of its value; undo, redo, rollbackTo, *)
(* rejected changes and animation frames leave the timer and that copy as   *)
(* they are; and the timer stops pending only by firing, which leaves the   *)
(* copy as the last history entry.                                          *)
SnapshotEventuallyTaken ==
    /\ []<><<AcceptOrReset>>_vars \/ <>[](~timerPending)
    /\ [][ /\ (lastOp'.op = "setStore" /\ lastOp'.acted) =>
                 (timerPending' /\ SameValue(latestVersion', store'))
           /\ (timerPending /\ lastOp'.op \in {"undo", "redo", "rollbackTo", "frame"}) =>
                 (timerPending' /\ latestVersion' = latestVersion)
           /\ (timerPending /\ lastOp'.op = "setStore" /\ ~lastOp'.acted) =>
                 (timerPending' /\ latestVersion' = latestVersion)
           /\ (timerPending /\ ~timerPending') =>
                 /\ lastOp'.op = "timer"
                 /\ SameValue(history'[Len(history')], latestVersion)
                 /\ currentIndex' = Len(history') - 1 ]_vars

\* the timer of a change fired after a rollback made while it was pending:
\* the last entry is the value of the change, the live value is the older one
SnapshotEventuallyTakenWitness ==
    /\ variant = "history"
    /\ lastOp.op = "timer"
    /\ ~timerPending
    /\ burst = "none"
    /\ Len(history) = 2
    /\ SameValue(history[2], Num(1))
    /\ SameValue(store, Num(0))

====
